---- MODULE Spec2Model ----
(***************************************************************************)
(* A model of the TSP store (tsp/src/store.rs), its async facade           *)
(* (tsp/src/async_store.rs) and the per-subscription receive task, for two *)
(* stores that each own one VID and have verified the other's.             *)
(*                                                                         *)
(* Envelopes are symbolic: an envelope is the record of its parts, a       *)
(* signature records its signer and the parts it was computed over, a      *)
(* ciphertext records the key it was sealed to and a fresh HPKE nonce.     *)
(* SHA-256 is injective on sealed envelopes: the digest of an envelope is  *)
(* the nonce of its seal.  The keys of a VID are a function of its         *)
(* identifier (the resolver binds one key pair to an identifier).          *)
(***************************************************************************)
EXTENDS Integers, Sequences, FiniteSets, TLC

VARIABLES
    vids,       \* [store -> [identifier -> VidContext]]     Store.vids
    poisoned,   \* [store -> BOOLEAN]   the RwLock around Store.vids is poisoned
    inbox,      \* [store -> Seq(item)] the transport stream of the store's subscription
    chan,       \* [store -> Seq(result)] the mpsc channel returned by receive()
    task,       \* [store -> {"running", "blocked", "panicked"}] the task spawned by
                \* receive(); blocked: it awaits room in the channel for the result
                \* of its last turn
    pend,       \* [store -> continuation] a send_relationship_* suspended at its send
    nonce,      \* number of envelopes sealed so far
    sealed,     \* history: the calls that emitted an envelope, with the envelope
    attacks,    \* number of network faults injected so far
    cancelled,  \* history: [store -> set of <<peer, status>>] relationships ended by a cancel
    turn,       \* history: [store -> turn] the last turn of the receive task's loop
    rx,         \* [store -> Held or Dropped(at)] the Receiver that receive() returned
    got,        \* history: [store -> Seq(result)] what the caller has taken from rx
    lock,       \* [store -> [lock name -> holder]] who holds the write lock of a map
    tx,         \* the demo server's broadcast channel AppState.tx
    ws,         \* one WebSocket connection of the demo server: its subscription
                \* and its two tasks
    walk,       \* a call of receive(): its position and its locals receiver and
                \* receivers
    proc        \* [process -> its position, locals and result] the concurrent
                \* operations on a store, step by step

vars ==
    <<vids, poisoned, inbox, chan, task, pend, nonce, sealed, attacks, cancelled, turn,
      rx, got, lock, proc, tx, ws, walk>>

---------------------------------------------------------------------------
(* Bounds of the model *)

MaxSeal == 3
MaxInbox == 2
MaxAttack == 1
\* Calls of forward_routed_message in a behaviour
MaxForward == 2
\* Error items of a subscription stream in a behaviour
MaxBroadcast == 102      \* values sent into the broadcast channel
MaxFlood == 18

(* Program constants *)

ChannelCapacity == 16
DefaultDigest == 0

---------------------------------------------------------------------------
(* The world of the tests: two stores, each owning one VID *)

Alice == "alice"
Bob == "bob"
RealBob == "realbob"
Ids == {Alice, Bob, RealBob}

Stores == {"alice_db", "bob_db"}
OwnerOf == [alice_db |-> Alice, bob_db |-> Bob]

None == "none"

\* VerifiedVid::endpoint: the transport address a VID is reached at; a store
\* subscribes to the endpoint of its own VID.
Endpoint(id) == CASE id = Alice -> "alice_db"
                  [] id = Bob -> "bob_db"
                  [] OTHER -> "nowhere"

NonConfidential == {None, "extra non-confidential data"}
Messages == {"hello world"}

---------------------------------------------------------------------------
(* RelationshipStatus *)

Unrelated == [kind |-> "Unrelated"]
Unidirectional(d) == [kind |-> "Unidirectional", digest |-> d]
Bidirectional(d) == [kind |-> "Bidirectional", digest |-> d]
Controlled == [kind |-> "Controlled"]

(* VidContext as add_verified_vid and add_private_vid create it *)

NewContext(private) ==
    [private |-> private,
     relation_status |-> Unrelated,
     relation_vid |-> None,
     parent_vid |-> None,
     tunnel |-> <<>>]

(* Payload *)

Content(m) == [kind |-> "Content", bytes |-> m]
NestedMessage(inner) == [kind |-> "NestedMessage", inner |-> inner]
RoutedMessage(hops, inner) == [kind |-> "RoutedMessage", hops |-> hops, inner |-> inner]
RequestRelationship == [kind |-> "RequestRelationship"]
AcceptRelationship(t) == [kind |-> "AcceptRelationship", thread_id |-> t]
CancelRelationship(t) == [kind |-> "CancelRelationship", thread_id |-> t]

\* Payload::as_bytes
AsBytes(p) ==
    CASE p.kind = "Content" -> [raw |-> "bytes", bytes |-> p.bytes]
      [] p.kind = "NestedMessage" -> [raw |-> "envelope", inner |-> p.inner]
      [] p.kind = "RoutedMessage" -> [raw |-> "envelope", inner |-> p.inner]
      [] p.kind = "CancelRelationship" -> [raw |-> "empty"]
      [] p.kind = "RequestRelationship" -> [raw |-> "empty"]
      [] p.kind = "AcceptRelationship" -> [raw |-> "digest", thread_id |-> p.thread_id]

(* Results: Ok(ReceivedTspMessage) and Err(Error) *)

Err(e) == [ok |-> FALSE, err |-> e]
ErrVid(e, id) == [ok |-> FALSE, err |-> e, vid |-> id]

GenericMessage(sender, nc, message, type) ==
    [ok |-> TRUE, kind |-> "GenericMessage", sender |-> sender,
     nonconfidential_data |-> nc, message |-> message, message_type |-> type]
ReceivedRequest(sender, t) ==
    [ok |-> TRUE, kind |-> "RequestRelationship", sender |-> sender, thread_id |-> t]
ReceivedAccept(sender) == [ok |-> TRUE, kind |-> "AcceptRelationship", sender |-> sender]
ReceivedCancel(sender) == [ok |-> TRUE, kind |-> "CancelRelationship", sender |-> sender]
ForwardRequest(sender, next_hop, route, opaque) ==
    [ok |-> TRUE, kind |-> "ForwardRequest", sender |-> sender, next_hop |-> next_hop,
     route |-> route, opaque_payload |-> opaque]

---------------------------------------------------------------------------
(* Codec and crypto: envelopes, seal, sign, open, verify, sha256 *)

NoCiphertext == [present |-> FALSE]

\* The parts a signature covers: everything before the signature part.
Unsigned(env) ==
    [sender |-> env.sender, receiver |-> env.receiver,
     nonconfidential |-> env.nonconfidential, ciphertext |-> env.ciphertext,
     damage |-> env.damage \ {"signature"}]

WithSignature(u, signer) ==
    [sender |-> u.sender, receiver |-> u.receiver,
     nonconfidential |-> u.nonconfidential, ciphertext |-> u.ciphertext,
     damage |-> u.damage,
     signature |-> [signer |-> signer, over |-> u]]

\* seal: HPKE-seal the payload to the receiver's key, bound to the header,
\* then sign the envelope with the sender's key.
Seal(sender, receiver, nc, payload, n) ==
    WithSignature(
        [sender |-> sender, receiver |-> receiver, nonconfidential |-> nc,
         ciphertext |-> [present |-> TRUE, key |-> receiver,
                         aad |-> <<sender, receiver, nc>>,
                         payload |-> payload, nonce |-> n],
         damage |-> {}],
        sender)

\* sign: an envelope without ciphertext part; the bytes travel in the clear.
Sign(sender, receiver, bytes) ==
    WithSignature(
        [sender |-> sender, receiver |-> receiver, nonconfidential |-> bytes,
         ciphertext |-> NoCiphertext, damage |-> {}],
        sender)

\* sha256 of an envelope (injective on sealed envelopes).
Sha256(env) == env.ciphertext.nonce

\* The parts of an envelope in wire order; a byte of the envelope lies in one.
Layout(env) ==
    <<"framing", "sender">>
    \o (IF env.receiver = None THEN <<>> ELSE <<"receiver">>)
    \o (IF env.ciphertext.present /\ env.nonconfidential = None
        THEN <<>> ELSE <<"nonconfidential">>)
    \o (IF env.ciphertext.present THEN <<"ciphertext">> ELSE <<>>)
    \o <<"signature">>

\* The envelope with a byte of part `part` altered; an altered identifier
\* reads as the identifier `id`.
Flip(env, part, id) ==
    CASE part = "sender" -> [env EXCEPT !.sender = id]
      [] part = "receiver" -> [env EXCEPT !.receiver = id]
      [] OTHER -> [env EXCEPT !.damage = @ \cup {part}]

\* cesr::probe
Probe(env) ==
    IF "framing" \in env.damage THEN Err("Decode")
    ELSE [ok |-> TRUE,
          type |-> IF env.ciphertext.present THEN "EncryptedMessage" ELSE "SignedMessage",
          sender |-> env.sender, receiver |-> env.receiver]

SignatureValid(sender, env) ==
    /\ "signature" \notin env.damage
    /\ env.signature.signer = sender
    /\ env.signature.over = Unsigned(env)

\* A variant of crypto::open that does not check the signature
CryptoOpenUnverified(receiver, sender, env) ==
    IF "framing" \in env.damage THEN Err("Decode")
    ELSE IF env.receiver # receiver THEN Err("UnexpectedRecipient")
    ELSE IF ~env.ciphertext.present THEN Err("MissingCiphertext")
    ELSE IF \/ "ciphertext" \in env.damage
            \/ env.ciphertext.key # receiver
            \/ env.ciphertext.aad # <<env.sender, env.receiver, env.nonconfidential>>
         THEN Err("Cryptographic")
    ELSE [ok |-> TRUE, nonconfidential_data |-> env.nonconfidential,
          payload |-> env.ciphertext.payload, raw_bytes |-> env]

\* crypto::open
CryptoOpen(receiver, sender, env) ==
    IF "framing" \in env.damage THEN Err("Decode")
    ELSE IF ~SignatureValid(sender, env) THEN Err("Verify")
    ELSE IF env.receiver # receiver THEN Err("UnexpectedRecipient")
    ELSE IF ~env.ciphertext.present THEN Err("MissingCiphertext")
    ELSE IF \/ "ciphertext" \in env.damage
            \/ env.ciphertext.key # receiver
            \/ env.ciphertext.aad # <<env.sender, env.receiver, env.nonconfidential>>
         THEN Err("Cryptographic")
    ELSE [ok |-> TRUE, nonconfidential_data |-> env.nonconfidential,
          payload |-> env.ciphertext.payload, raw_bytes |-> env]

\* crypto::verify
CryptoVerify(sender, env) ==
    IF "framing" \in env.damage THEN Err("Decode")
    ELSE IF ~SignatureValid(sender, env) THEN Err("Verify")
    ELSE [ok |-> TRUE, payload |-> env.nonconfidential]

---------------------------------------------------------------------------
(* Store: lookups.  `v` is the map Store.vids, `p` says its lock is poisoned *)

\* Store::get_vid
GetVid(v, p, id) ==
    IF p THEN Err("Internal")
    ELSE IF id \in DOMAIN v THEN [ok |-> TRUE, ctx |-> v[id]]
    ELSE ErrVid("UnverifiedVid", id)

\* Store::get_private_vid
GetPrivateVid(v, p, id) ==
    LET r == GetVid(v, p, id)
    IN IF ~r.ok THEN r
       ELSE IF r.ctx.private THEN r
       ELSE ErrVid("MissingPrivateVid", id)

\* Store::get_verified_vid
GetVerifiedVid(v, p, id) == GetVid(v, p, id)

\* Store::has_private_vid
HasPrivateVid(v, p, id) == GetPrivateVid(v, p, id).ok

Sealed(mode, endpoint, bytes, used) ==
    [ok |-> TRUE, mode |-> mode, endpoint |-> endpoint, bytes |-> bytes, used |-> used]

\* A routed mode that puts the non-confidential data on the outer envelope
SealRoutedOuterData(v, p, receiver, receiver_context, nc, payload, n) ==
    LET intermediaries == receiver_context.tunnel
        first_hop == GetVid(v, p, intermediaries[1])
    IN IF ~first_hop.ok THEN first_hop
       ELSE IF first_hop.ctx.relation_vid = None
            THEN Err("ResolveVid")
       ELSE IF receiver_context.relation_vid = None
            THEN Err("ResolveVid")
       ELSE LET inner_sender == GetPrivateVid(v, p, receiver_context.relation_vid)
                first_sender == GetPrivateVid(v, p, first_hop.ctx.relation_vid)
            IN IF ~inner_sender.ok THEN inner_sender
               ELSE IF ~first_sender.ok THEN first_sender
               ELSE Sealed(
                       "routed",
                       Endpoint(intermediaries[1]),
                       Seal(first_hop.ctx.relation_vid, intermediaries[1], nc,
                            RoutedMessage(
                                Tail(intermediaries),
                                Seal(receiver_context.relation_vid, receiver, None,
                                     payload, n)),
                            n + 1),
                       2)

\* Store::seal_message_payload, routed mode (the receiver has a tunnel)
SealRouted(v, p, receiver, receiver_context, nc, payload, n) ==
    LET intermediaries == receiver_context.tunnel
        first_hop == GetVid(v, p, intermediaries[1])
    IN IF ~first_hop.ok THEN first_hop
       ELSE IF first_hop.ctx.relation_vid = None
            THEN Err("ResolveVid")
       ELSE IF receiver_context.relation_vid = None
            THEN Err("ResolveVid")
       ELSE LET inner_sender == GetPrivateVid(v, p, receiver_context.relation_vid)
                first_sender == GetPrivateVid(v, p, first_hop.ctx.relation_vid)
            IN IF ~inner_sender.ok THEN inner_sender
               ELSE IF ~first_sender.ok THEN first_sender
               ELSE Sealed(
                       "routed",
                       Endpoint(intermediaries[1]),
                       Seal(first_hop.ctx.relation_vid, intermediaries[1], None,
                            RoutedMessage(
                                Tail(intermediaries),
                                Seal(receiver_context.relation_vid, receiver, nc,
                                     payload, n)),
                            n + 1),
                       2)

\* A nested mode that lets a relation VID without parent be the outer sender
SealNestedOwnParent(v, p, receiver, receiver_context, nc, payload, n) ==
    LET parent_receiver == receiver_context.parent_vid
        inner_sender == receiver_context.relation_vid
    IN IF inner_sender = None THEN Err("ResolveVid")
       ELSE LET sender_context == GetVid(v, p, inner_sender)
            IN IF ~sender_context.ok THEN sender_context
               ELSE LET parent_sender == IF sender_context.ctx.parent_vid = None
                                         THEN inner_sender
                                         ELSE sender_context.ctx.parent_vid
                        inner_private == GetPrivateVid(v, p, inner_sender)
                        parent_private == GetPrivateVid(v, p, parent_sender)
                        parent_verified == GetVerifiedVid(v, p, parent_receiver)
                    IN IF ~inner_private.ok THEN inner_private
                       ELSE IF ~parent_private.ok THEN parent_private
                       ELSE IF ~parent_verified.ok THEN parent_verified
                       ELSE Sealed(
                               "nested",
                               Endpoint(parent_receiver),
                               Seal(parent_sender, parent_receiver, nc,
                                    NestedMessage(
                                        Sign(inner_sender, receiver, AsBytes(payload))),
                                    n),
                               1)

\* Store::seal_message_payload, nested mode (the receiver has a parent)
SealNested(v, p, receiver, receiver_context, nc, payload, n) ==
    LET parent_receiver == receiver_context.parent_vid
        inner_sender == receiver_context.relation_vid
    IN IF inner_sender = None THEN Err("ResolveVid")
       ELSE LET sender_context == GetVid(v, p, inner_sender)
            IN IF ~sender_context.ok THEN sender_context
               ELSE IF sender_context.ctx.parent_vid = None THEN Err("ResolveVid")
               ELSE LET parent_sender == sender_context.ctx.parent_vid
                        inner_private == GetPrivateVid(v, p, inner_sender)
                        parent_private == GetPrivateVid(v, p, parent_sender)
                        parent_verified == GetVerifiedVid(v, p, parent_receiver)
                    IN IF ~inner_private.ok THEN inner_private
                       ELSE IF ~parent_private.ok THEN parent_private
                       ELSE IF ~parent_verified.ok THEN parent_verified
                       ELSE Sealed(
                               "nested",
                               Endpoint(parent_receiver),
                               Seal(parent_sender, parent_receiver, nc,
                                    NestedMessage(
                                        Sign(inner_sender, receiver, AsBytes(payload))),
                                    n),
                               1)

\* A variant of seal_message_payload that looks at the parent before the
\* tunnel
SealMessagePayloadParentFirst(v, p, sender, receiver, nc, payload, n) ==
    LET s == GetPrivateVid(v, p, sender)
        receiver_context == GetVid(v, p, receiver)
    IN IF ~s.ok THEN s
       ELSE IF ~receiver_context.ok THEN receiver_context
       ELSE IF receiver_context.ctx.parent_vid # None
            THEN SealNested(v, p, receiver, receiver_context.ctx, nc, payload, n)
       ELSE IF receiver_context.ctx.tunnel # <<>>
            THEN SealRouted(v, p, receiver, receiver_context.ctx, nc, payload, n)
       ELSE Sealed("direct", Endpoint(receiver),
                   Seal(sender, receiver, nc, payload, n), 1)

\* Store::seal_message_payload; `n` is the nonce of the first seal it makes
SealMessagePayload(v, p, sender, receiver, nc, payload, n) ==
    LET s == GetPrivateVid(v, p, sender)
        receiver_context == GetVid(v, p, receiver)
    IN IF ~s.ok THEN s
       ELSE IF ~receiver_context.ok THEN receiver_context
       ELSE IF receiver_context.ctx.tunnel # <<>>
            THEN SealRouted(v, p, receiver, receiver_context.ctx, nc, payload, n)
       ELSE IF receiver_context.ctx.parent_vid # None
            THEN SealNested(v, p, receiver, receiver_context.ctx, nc, payload, n)
       ELSE Sealed("direct", Endpoint(receiver),
                   Seal(sender, receiver, nc, payload, n), 1)

\* A variant of Store::seal_message that drops the non-confidential data
SealMessageBare(v, p, sender, receiver, nc, message, n) ==
    SealMessagePayload(v, p, sender, receiver, None, Content(message), n)

\* Store::seal_message
SealMessage(v, p, sender, receiver, nc, message, n) ==
    SealMessagePayload(v, p, sender, receiver, nc, Content(message), n)

---------------------------------------------------------------------------
(* Store::open_message.  The outcome is the returned Result, the map after  *)
(* the call, whether the call panicked and whether it poisoned the lock.    *)

Returned(r, v) == [res |-> r, vids |-> v, panicked |-> FALSE, poison |-> FALSE]
Panicked(v, poison) ==
    [res |-> Err("panic"), vids |-> v, panicked |-> TRUE, poison |-> poison]

\* A variant of the RequestRelationship branch that reports no digest
OpenRequestDefault(v, sender, opened) ==
    Returned(ReceivedRequest(sender, DefaultDigest), v)

\* A RequestRelationship branch that records the request in the store
OpenRequestRecorded(v, sender, opened) ==
    Returned(ReceivedRequest(sender, Sha256(opened.raw_bytes)),
             [v EXCEPT ![sender].relation_status = Unidirectional(Sha256(opened.raw_bytes))])

\* The RequestRelationship branch
OpenRequest(v, sender, opened) ==
    Returned(ReceivedRequest(sender, Sha256(opened.raw_bytes)), v)

\* Variants of the AcceptRelationship branch with one of its steps wrong:
\* the promotion is forgotten,
OpenAcceptKeep(v, p, sender, thread_id) ==
    IF p THEN Returned(Err("Internal"), v)
    ELSE IF sender \notin DOMAIN v THEN Returned(Err("Relationship"), v)
    ELSE IF v[sender].relation_status.kind # "Unidirectional"
         THEN Returned(Err("Relationship"), v)
    ELSE IF thread_id # v[sender].relation_status.digest
         THEN Returned(Err("Relationship"), v)
    ELSE Returned(ReceivedAccept(sender), v)

\* the thread id is not compared,
OpenAcceptAnyThread(v, p, sender, thread_id) ==
    IF p THEN Returned(Err("Internal"), v)
    ELSE IF sender \notin DOMAIN v THEN Returned(Err("Relationship"), v)
    ELSE IF v[sender].relation_status.kind # "Unidirectional"
         THEN Returned(Err("Relationship"), v)
    ELSE Returned(
            ReceivedAccept(sender),
            [v EXCEPT ![sender].relation_status =
                          Bidirectional(v[sender].relation_status.digest)])

\* the accepted relationship is recorded as Controlled.
OpenAcceptControlled(v, p, sender, thread_id) ==
    IF p THEN Returned(Err("Internal"), v)
    ELSE IF sender \notin DOMAIN v THEN Returned(Err("Relationship"), v)
    ELSE IF v[sender].relation_status.kind # "Unidirectional"
         THEN Returned(Err("Relationship"), v)
    ELSE IF thread_id # v[sender].relation_status.digest
         THEN Returned(Err("Relationship"), v)
    ELSE Returned(ReceivedAccept(sender),
                  [v EXCEPT ![sender].relation_status = Controlled])

\* an unrelated sender is promoted too.
OpenAcceptUnrelated(v, p, sender, thread_id) ==
    IF p THEN Returned(Err("Internal"), v)
    ELSE IF sender \notin DOMAIN v THEN Returned(Err("Relationship"), v)
    ELSE IF v[sender].relation_status.kind = "Unrelated"
         THEN Returned(ReceivedAccept(sender),
                       [v EXCEPT ![sender].relation_status = Bidirectional(thread_id)])
    ELSE IF v[sender].relation_status.kind # "Unidirectional"
         THEN Returned(Err("Relationship"), v)
    ELSE IF thread_id # v[sender].relation_status.digest
         THEN Returned(Err("Relationship"), v)
    ELSE Returned(
            ReceivedAccept(sender),
            [v EXCEPT ![sender].relation_status =
                          Bidirectional(v[sender].relation_status.digest)])

\* The AcceptRelationship branch
OpenAccept(v, p, sender, thread_id) ==
    IF p THEN Returned(Err("Internal"), v)
    ELSE IF sender \notin DOMAIN v THEN Returned(Err("Relationship"), v)
    ELSE IF v[sender].relation_status.kind # "Unidirectional"
         THEN Returned(Err("Relationship"), v)
    ELSE IF thread_id # v[sender].relation_status.digest
         THEN Returned(Err("Relationship"), v)
    ELSE Returned(
            ReceivedAccept(sender),
            [v EXCEPT ![sender].relation_status =
                          Bidirectional(v[sender].relation_status.digest)])

\* A CancelRelationship branch that ends the relationship whatever the thread
OpenCancelAnyThread(v, p, sender, thread_id) ==
    IF p THEN Returned(Err("Internal"), v)
    ELSE IF sender \notin DOMAIN v THEN Returned(ReceivedCancel(sender), v)
    ELSE IF v[sender].relation_status.kind \in {"Bidirectional", "Unidirectional"}
         THEN Returned(ReceivedCancel(sender),
                       [v EXCEPT ![sender].relation_status = Unrelated])
    ELSE Panicked(v, TRUE)

\* The CancelRelationship branch
OpenCancel(v, p, sender, thread_id) ==
    IF p THEN Returned(Err("Internal"), v)
    ELSE IF sender \notin DOMAIN v THEN Returned(ReceivedCancel(sender), v)
    ELSE IF v[sender].relation_status.kind \in {"Bidirectional", "Unidirectional"}
         THEN IF thread_id # v[sender].relation_status.digest
              THEN Returned(Err("Relationship"), v)
              ELSE Returned(ReceivedCancel(sender),
                            [v EXCEPT ![sender].relation_status = Unrelated])
    ELSE Panicked(v, TRUE)

RECURSIVE OpenMessage(_, _, _)

\* The dispatch on the payload of an opened encrypted envelope
OpenPayload(v, p, sender, opened) ==
    LET payload == opened.payload
    IN CASE payload.kind = "Content" ->
              Returned(GenericMessage(sender, opened.nonconfidential_data,
                                      payload.bytes, "SignedAndEncrypted"), v)
         [] payload.kind = "NestedMessage" ->
              OpenMessage(v, p, payload.inner)
         [] payload.kind = "RoutedMessage" ->
              IF payload.hops = <<>> THEN Panicked(v, FALSE)
              ELSE IF ~GetVerifiedVid(v, p, payload.hops[1]).ok
                   THEN Returned(ErrVid("UnverifiedVid", payload.hops[1]), v)
              ELSE Returned(ForwardRequest(sender, payload.hops[1],
                                           Tail(payload.hops), payload.inner), v)
         [] payload.kind = "RequestRelationship" ->
              OpenRequest(v, sender, opened)
         [] payload.kind = "AcceptRelationship" ->
              OpenAccept(v, p, sender, payload.thread_id)
         [] payload.kind = "CancelRelationship" ->
              OpenCancel(v, p, sender, payload.thread_id)

\* A variant of the encrypted branch that hands a routed message's whole
\* list of hops on as the route
OpenEncryptedWholeRoute(v, p, env) ==
    IF ~GetPrivateVid(v, p, env.receiver).ok
    THEN Returned(Err("UnexpectedRecipient"), v)
    ELSE IF ~GetVerifiedVid(v, p, env.sender).ok
    THEN Returned(ErrVid("UnverifiedVid", env.sender), v)
    ELSE LET opened == CryptoOpen(env.receiver, env.sender, env)
         IN IF ~opened.ok THEN Returned(opened, v)
            ELSE IF opened.payload.kind = "RoutedMessage" /\ opened.payload.hops # <<>>
                 THEN Returned(ForwardRequest(env.sender, opened.payload.hops[1],
                                              opened.payload.hops, opened.payload.inner),
                               v)
            ELSE OpenPayload(v, p, env.sender, opened)

\* A variant of the encrypted branch that unwraps the lookup of the next hop
\* of a routed message
OpenEncryptedUnwrapHop(v, p, env) ==
    IF ~GetPrivateVid(v, p, env.receiver).ok
    THEN Returned(Err("UnexpectedRecipient"), v)
    ELSE IF ~GetVerifiedVid(v, p, env.sender).ok
    THEN Returned(ErrVid("UnverifiedVid", env.sender), v)
    ELSE LET opened == CryptoOpen(env.receiver, env.sender, env)
         IN IF ~opened.ok THEN Returned(opened, v)
            ELSE IF /\ opened.payload.kind = "RoutedMessage"
                    /\ opened.payload.hops # <<>>
                    /\ ~GetVerifiedVid(v, p, opened.payload.hops[1]).ok
                 THEN Panicked(v, FALSE)
            ELSE OpenPayload(v, p, env.sender, opened)

\* A variant of the encrypted branch that takes any VID of the store, owned
\* or only verified, as the intended receiver
OpenEncryptedKnownReceiver(v, p, env) ==
    IF ~GetVid(v, p, env.receiver).ok
    THEN Returned(Err("UnexpectedRecipient"), v)
    ELSE IF ~GetVerifiedVid(v, p, env.sender).ok
    THEN Returned(ErrVid("UnverifiedVid", env.sender), v)
    ELSE LET opened == CryptoOpen(env.receiver, env.sender, env)
         IN IF ~opened.ok THEN Returned(opened, v)
            ELSE OpenPayload(v, p, env.sender, opened)

\* A variant of the encrypted branch that opens a nested envelope only when
\* it is a signed one
OpenEncryptedShallow(v, p, env) ==
    IF ~GetPrivateVid(v, p, env.receiver).ok
    THEN Returned(Err("UnexpectedRecipient"), v)
    ELSE IF ~GetVerifiedVid(v, p, env.sender).ok
    THEN Returned(ErrVid("UnverifiedVid", env.sender), v)
    ELSE LET opened == CryptoOpen(env.receiver, env.sender, env)
         IN IF ~opened.ok THEN Returned(opened, v)
            ELSE IF /\ opened.payload.kind = "NestedMessage"
                    /\ opened.payload.inner.ciphertext.present
                 THEN Returned(Err("Decode"), v)
            ELSE OpenPayload(v, p, env.sender, opened)

\* A variant of the encrypted branch that reports the sender of the outer
\* envelope for the message a NestedMessage carries
OpenEncryptedOuterSender(v, p, env) ==
    IF ~GetPrivateVid(v, p, env.receiver).ok
    THEN Returned(Err("UnexpectedRecipient"), v)
    ELSE IF ~GetVerifiedVid(v, p, env.sender).ok
    THEN Returned(ErrVid("UnverifiedVid", env.sender), v)
    ELSE LET opened == CryptoOpen(env.receiver, env.sender, env)
             out == OpenPayload(v, p, env.sender, opened)
         IN IF ~opened.ok THEN Returned(opened, v)
            ELSE IF /\ opened.payload.kind = "NestedMessage"
                    /\ out.res.ok
                    /\ out.res.kind = "GenericMessage"
                 THEN [out EXCEPT !.res.sender = env.sender]
            ELSE out

OpenEncrypted(v, p, env) ==
    IF ~GetPrivateVid(v, p, env.receiver).ok
    THEN Returned(Err("UnexpectedRecipient"), v)
    ELSE IF ~GetVerifiedVid(v, p, env.sender).ok
    THEN Returned(ErrVid("UnverifiedVid", env.sender), v)
    ELSE LET opened == CryptoOpen(env.receiver, env.sender, env)
         IN IF ~opened.ok THEN Returned(opened, v)
            ELSE OpenPayload(v, p, env.sender, opened)

\* A signed branch that does not look at the receiver field
OpenSignedAnyReceiver(v, p, env) ==
    IF ~GetVerifiedVid(v, p, env.sender).ok
    THEN Returned(ErrVid("UnverifiedVid", env.sender), v)
    ELSE LET payload == CryptoVerify(env.sender, env)
         IN IF ~payload.ok THEN Returned(payload, v)
            ELSE Returned(GenericMessage(env.sender, None, payload.payload, "Signed"), v)

\* The SignedMessage branch of open_message
OpenSigned(v, p, env) ==
    IF env.receiver # None /\ ~HasPrivateVid(v, p, env.receiver)
    THEN Returned(Err("UnexpectedRecipient"), v)
    ELSE IF ~GetVerifiedVid(v, p, env.sender).ok
    THEN Returned(ErrVid("UnverifiedVid", env.sender), v)
    ELSE LET payload == CryptoVerify(env.sender, env)
         IN IF ~payload.ok THEN Returned(payload, v)
            ELSE Returned(GenericMessage(env.sender, None, payload.payload, "Signed"), v)

OpenMessage(v, p, env) ==
    LET probed_message == Probe(env)
    IN IF ~probed_message.ok THEN Returned(probed_message, v)
       ELSE IF probed_message.type = "EncryptedMessage" THEN OpenEncrypted(v, p, env)
       ELSE OpenSigned(v, p, env)

---------------------------------------------------------------------------
(* The state machine *)

Idle == [op |-> "idle"]

\* An entry of the history `sealed`: the call, its arguments, the thread id
\* it keeps and the envelope it handed to the transport.
Call(op, mode, sender, receiver, nc, message, thread_id, bytes) ==
    [op |-> op, mode |-> mode, sender |-> sender, receiver |-> receiver,
     nc |-> nc, message |-> message, thread_id |-> thread_id, bytes |-> bytes]
NoTurn == [taken |-> FALSE]

\* The write locks of a store: of the map of VIDs and of the map of relation
\* statuses; free, or held by a process
LockNames == {"verified_vids", "relation_status"}
Unlocked == [db \in Stores |-> [l \in LockNames |-> None]]

\* The operations that run step by step, and their state before they start
Processes == {"open1", "open2", "cancel", "verify"}
NoProcesses == [q \in Processes |-> [pc |-> "idle"]]

\* The Receiver end of the channel: the caller holds it, or dropped it when
\* `at` calls had sealed an envelope
Held == [dropped |-> FALSE]
Dropped(at) == [dropped |-> TRUE, at |-> at]

Frame(env) == [ok |-> TRUE, bytes |-> env]
TransportFailure == Err("Transport")

\* The relationships a change of the map from v to w ended.
Ended(v, w) ==
    {<<id, v[id].relation_status>> :
        id \in {x \in DOMAIN v :
                  /\ v[x].relation_status.kind \in {"Unidirectional", "Bidirectional"}
                  /\ w[x].relation_status = Unrelated}}

\* broadcast::channel(BroadcastCapacity): `tail` values have been sent, the
\* last BroadcastCapacity of them are retained
NoBroadcast == [tail |-> 0]

\* No call of receive() is under way
NoWalk == [pc |-> "idle"]

\* No WebSocket connection has been made
NoSocket == [send_task |-> None, recv_task |-> None]

\* After the set-up of the tests: add_private_vid of the store's own VID,
\* verify_vid of the other's, receive() on the own VID.
Init ==
    /\ vids = [db \in Stores |->
                 [id \in {Alice, Bob} |-> NewContext(id = OwnerOf[db])]]
    /\ poisoned = [db \in Stores |-> FALSE]
    /\ inbox = [db \in Stores |-> <<>>]
    /\ chan = [db \in Stores |-> <<>>]
    /\ task = [db \in Stores |-> "running"]
    /\ pend = [db \in Stores |-> Idle]
    /\ nonce = 0
    /\ sealed = <<>>
    /\ attacks = 0
    /\ cancelled = [db \in Stores |-> {}]
    /\ turn = [db \in Stores |-> NoTurn]
    /\ rx = [db \in Stores |-> Held]
    /\ got = [db \in Stores |-> <<>>]
    /\ lock = Unlocked
    /\ proc = NoProcesses
    /\ tx = NoBroadcast
    /\ ws = NoSocket
    /\ walk = NoWalk

\* tsp_transport::send_message succeeding: the bytes reach the subscription
\* of the endpoint.
TransportSend(endpoint, env) ==
    /\ endpoint \in Stores
    /\ Len(inbox[endpoint]) < MaxInbox
    /\ inbox' = [inbox EXCEPT ![endpoint] = Append(@, Frame(env))]

\* A call that returns the error `r` and changes nothing.
Returns(db, op, r) == UNCHANGED vars

\* AsyncStore::send: seal_message, then the transport send.  A failed
\* transport send returns the error; the envelope is dropped unseen.
Send(db, sender, receiver, nc, message) ==
    /\ pend[db] = Idle
    /\ nonce < MaxSeal
    /\ LET m == SealMessage(vids[db], poisoned[db], sender, receiver, nc, message,
                            nonce + 1)
       IN IF ~m.ok THEN Returns(db, "send", m)
          ELSE \E transport_ok \in BOOLEAN :
                 IF ~transport_ok THEN Returns(db, "send", TransportFailure)
                 ELSE /\ nonce + m.used <= MaxSeal
                      /\ TransportSend(m.endpoint, m.bytes)
                      /\ nonce' = nonce + m.used
                      /\ sealed' = Append(sealed,
                                          Call("send", m.mode, sender, receiver, nc,
                                               message, DefaultDigest, m.bytes))
                      /\ UNCHANGED <<vids, poisoned, chan, task, pend, attacks,
                                     cancelled, turn, rx, got, lock, proc, tx, ws, walk>>

\* faulty_send of the tests: seal Content, alter a byte of part k, send
FaultySend(db, sender, receiver, nc, message, k, id) ==
    /\ nonce < MaxSeal
    /\ attacks < MaxAttack
    /\ GetPrivateVid(vids[db], poisoned[db], sender).ok
    /\ GetVerifiedVid(vids[db], poisoned[db], receiver).ok
    /\ LET tsp_message == Seal(sender, receiver, nc, Content(message), nonce + 1)
           part == Layout(tsp_message)[k]
       IN /\ k \in 1..Len(Layout(tsp_message))
          /\ part = "sender" => id # sender
          /\ part = "receiver" => id # receiver
          /\ part \notin {"sender", "receiver"} => id = sender
          /\ TransportSend(Endpoint(receiver), Flip(tsp_message, part, id))
          /\ sealed' = Append(sealed,
                              Call("faulty_send", "direct", sender, receiver, nc,
                                   message, DefaultDigest, tsp_message))
    /\ nonce' = nonce + 1
    /\ attacks' = attacks + 1
    /\ UNCHANGED <<vids, poisoned, chan, task, pend, cancelled, turn, rx, got, lock, proc, tx, ws, walk>>

\* A send_relationship_request that records the status before it sends
SendRelationshipRequestEager(db, sender, receiver) ==
    /\ pend[db] = Idle
    /\ nonce < MaxSeal
    /\ LET s == GetPrivateVid(vids[db], poisoned[db], sender)
           r == GetVerifiedVid(vids[db], poisoned[db], receiver)
           tsp_message == Seal(sender, receiver, None, RequestRelationship, nonce + 1)
           thread_id == Sha256(tsp_message)
       IN IF ~s.ok THEN Returns(db, "send_relationship_request", s)
          ELSE IF ~r.ok THEN Returns(db, "send_relationship_request", r)
          ELSE \E transport_ok \in BOOLEAN :
                 /\ vids' = [vids EXCEPT ![db][receiver].relation_status =
                                             Unidirectional(thread_id)]
                 /\ IF transport_ok
                    THEN /\ TransportSend(Endpoint(receiver), tsp_message)
                         /\ nonce' = nonce + 1
                         /\ sealed' = Append(sealed,
                                             Call("send_relationship_request", "direct",
                                                  sender, receiver, None, "", thread_id,
                                                  tsp_message))
                    ELSE UNCHANGED <<inbox, nonce, sealed>>
                 /\ UNCHANGED <<poisoned, chan, task, pend, attacks, cancelled, turn,
                                rx, got, lock, proc, tx, ws, walk>>

\* AsyncStore::send_relationship_request up to its transport send
SendRelationshipRequest(db, sender, receiver) ==
    /\ pend[db] = Idle
    /\ nonce < MaxSeal
    /\ LET s == GetPrivateVid(vids[db], poisoned[db], sender)
           r == GetVerifiedVid(vids[db], poisoned[db], receiver)
           tsp_message == Seal(sender, receiver, None, RequestRelationship, nonce + 1)
           thread_id == Sha256(tsp_message)
       IN IF ~s.ok THEN Returns(db, "send_relationship_request", s)
          ELSE IF ~r.ok THEN Returns(db, "send_relationship_request", r)
          ELSE \E transport_ok \in BOOLEAN :
                 IF ~transport_ok
                 THEN Returns(db, "send_relationship_request", TransportFailure)
                 ELSE /\ TransportSend(Endpoint(receiver), tsp_message)
                      /\ nonce' = nonce + 1
                      /\ sealed' = Append(sealed,
                                          Call("send_relationship_request", "direct",
                                               sender, receiver, None, "", thread_id,
                                               tsp_message))
                      /\ pend' = [pend EXCEPT ![db] =
                                    [op |-> "send_relationship_request",
                                     receiver |-> receiver,
                                     status |-> Unidirectional(thread_id)]]
                      /\ UNCHANGED <<vids, poisoned, chan, task, attacks, cancelled,
                                     turn, rx, got, lock, proc, tx, ws, walk>>

\* AsyncStore::send_relationship_accept up to its transport send
SendRelationshipAccept(db, sender, receiver, thread_id) ==
    /\ pend[db] = Idle
    /\ nonce < MaxSeal
    /\ LET s == GetPrivateVid(vids[db], poisoned[db], sender)
           r == GetVerifiedVid(vids[db], poisoned[db], receiver)
           tsp_message == Seal(sender, receiver, None, AcceptRelationship(thread_id),
                               nonce + 1)
       IN IF ~s.ok THEN Returns(db, "send_relationship_accept", s)
          ELSE IF ~r.ok THEN Returns(db, "send_relationship_accept", r)
          ELSE \E transport_ok \in BOOLEAN :
                 IF ~transport_ok
                 THEN Returns(db, "send_relationship_accept", TransportFailure)
                 ELSE /\ TransportSend(Endpoint(receiver), tsp_message)
                      /\ nonce' = nonce + 1
                      /\ sealed' = Append(sealed,
                                          Call("send_relationship_accept", "direct",
                                               sender, receiver, None, "", thread_id,
                                               tsp_message))
                      /\ pend' = [pend EXCEPT ![db] =
                                    [op |-> "send_relationship_accept",
                                     receiver |-> receiver,
                                     status |-> Bidirectional(thread_id)]]
                      /\ UNCHANGED <<vids, poisoned, chan, task, attacks, cancelled,
                                     turn, rx, got, lock, proc, tx, ws, walk>>

\* A variant of the completion that records every thread as Bidirectional
CompletePromote(db) ==
    /\ pend[db] # Idle
    /\ pend' = [pend EXCEPT ![db] = Idle]
    /\ vids' = IF poisoned[db] THEN vids
               ELSE [vids EXCEPT ![db][pend[db].receiver].relation_status =
                                       Bidirectional(pend[db].status.digest)]
    /\ UNCHANGED <<poisoned, inbox, chan, task, nonce, sealed, attacks, cancelled,
                   turn, rx, got, lock, proc, tx, ws, walk>>

\* A variant of the completion that keeps a thread that is pending already
CompleteKeepPending(db) ==
    /\ pend[db] # Idle
    /\ pend' = [pend EXCEPT ![db] = Idle]
    /\ vids' = IF poisoned[db]
                  \/ ( /\ pend[db].status.kind = "Unidirectional"
                       /\ vids[db][pend[db].receiver].relation_status.kind
                              = "Unidirectional" )
               THEN vids
               ELSE [vids EXCEPT ![db][pend[db].receiver].relation_status =
                                       pend[db].status]
    /\ UNCHANGED <<poisoned, inbox, chan, task, nonce, sealed, attacks, cancelled,
                   turn, rx, got, lock, proc, tx, ws, walk>>

\* send_relationship_request and send_relationship_accept after their
\* transport send: the insert into the relation status of the receiver
Complete(db) ==
    /\ pend[db] # Idle
    /\ pend' = [pend EXCEPT ![db] = Idle]
    /\ vids' = IF poisoned[db] THEN vids
               ELSE [vids EXCEPT ![db][pend[db].receiver].relation_status =
                                       pend[db].status]
    /\ UNCHANGED <<poisoned, inbox, chan, task, nonce, sealed, attacks, cancelled,
                   turn, rx, got, lock, proc, tx, ws, walk>>

\* AsyncStore::send_relationship_cancel
SendRelationshipCancel(db, sender, receiver) ==
    /\ pend[db] = Idle
    /\ nonce < MaxSeal
    /\ LET s == GetPrivateVid(vids[db], poisoned[db], sender)
           r == GetVerifiedVid(vids[db], poisoned[db], receiver)
           thread_id == DefaultDigest
           tsp_message == Seal(sender, receiver, None, CancelRelationship(thread_id),
                               nonce + 1)
           after == [vids[db] EXCEPT ![receiver].relation_status = Unrelated]
       IN IF ~s.ok THEN Returns(db, "send_relationship_cancel", s)
          ELSE IF ~r.ok THEN Returns(db, "send_relationship_cancel", r)
          ELSE \E transport_ok \in BOOLEAN :
                 /\ vids' = [vids EXCEPT ![db] = after]
                 /\ cancelled' = [cancelled EXCEPT ![db] = @ \cup Ended(vids[db], after)]
                 /\ IF transport_ok
                    THEN /\ TransportSend(Endpoint(receiver), tsp_message)
                         /\ nonce' = nonce + 1
                         /\ sealed' = Append(sealed,
                                             Call("send_relationship_cancel", "direct",
                                                  sender, receiver, None, "", thread_id,
                                                  tsp_message))
                    ELSE UNCHANGED <<inbox, nonce, sealed>>
                 /\ UNCHANGED <<poisoned, chan, task, pend, attacks, turn, rx, got, lock, proc, tx, ws, walk>>

\* A variant of the task's turn that discards the result when the channel
\* is full
ReceiveStepLossy(db) ==
    /\ task[db] = "running"
    /\ inbox[db] # <<>>
    /\ inbox' = [inbox EXCEPT ![db] = Tail(@)]
    /\ LET message == Head(inbox[db])
           out == IF message.ok
                  THEN OpenMessage(vids[db], poisoned[db], message.bytes)
                  ELSE Returned(message, vids[db])
       IN /\ vids' = [vids EXCEPT ![db] = out.vids]
          /\ cancelled' = [cancelled EXCEPT ![db] = @ \cup Ended(vids[db], out.vids)]
          /\ poisoned' = [poisoned EXCEPT ![db] = @ \/ out.poison]
          /\ task' = [task EXCEPT ![db] = IF out.panicked THEN "panicked" ELSE @]
          /\ chan' = [chan EXCEPT ![db] =
                          IF \/ out.panicked
                             \/ rx[db].dropped
                             \/ Len(chan[db]) >= ChannelCapacity
                          THEN @
                          ELSE Append(@, out.res)]
          /\ turn' = [turn EXCEPT ![db] =
                          [taken |-> TRUE, message |-> message, before |-> vids[db],
                           after |-> out.vids, ended |-> cancelled[db],
                           panicked |-> out.panicked, result |-> out.res]]
    /\ UNCHANGED <<pend, nonce, sealed, attacks, rx, got, lock, proc, tx, ws, walk>>

\* The task spawned by AsyncStore::receive: one turn of its loop
ReceiveStep(db) ==
    /\ task[db] = "running"
    /\ inbox[db] # <<>>
    /\ inbox' = [inbox EXCEPT ![db] = Tail(@)]
    /\ LET message == Head(inbox[db])
           out == IF message.ok
                  THEN OpenMessage(vids[db], poisoned[db], message.bytes)
                  ELSE Returned(message, vids[db])
       IN /\ vids' = [vids EXCEPT ![db] = out.vids]
          /\ cancelled' = [cancelled EXCEPT ![db] = @ \cup Ended(vids[db], out.vids)]
          /\ poisoned' = [poisoned EXCEPT ![db] = @ \/ out.poison]
          /\ task' = [task EXCEPT ![db] =
                          IF out.panicked THEN "panicked"
                          ELSE IF ~rx[db].dropped /\ Len(chan[db]) >= ChannelCapacity
                               THEN "blocked"
                          ELSE @]
          /\ chan' = [chan EXCEPT ![db] =
                          IF \/ out.panicked
                             \/ rx[db].dropped
                             \/ Len(chan[db]) >= ChannelCapacity
                          THEN @
                          ELSE Append(@, out.res)]
          /\ turn' = [turn EXCEPT ![db] =
                          [taken |-> TRUE, message |-> message, before |-> vids[db],
                           after |-> out.vids, ended |-> cancelled[db],
                           panicked |-> out.panicked, result |-> out.res]]
    /\ UNCHANGED <<pend, nonce, sealed, attacks, rx, got, lock, proc, tx, ws, walk>>

\* tx.send(result).await resumes: the channel has room for the result the
\* task holds, or the Receiver is gone and the send fails, which the task
\* ignores
Unblock(db) ==
    /\ task[db] = "blocked"
    /\ rx[db].dropped \/ Len(chan[db]) < ChannelCapacity
    /\ task' = [task EXCEPT ![db] = "running"]
    /\ chan' = [chan EXCEPT ![db] = IF rx[db].dropped THEN @ ELSE Append(@, turn[db].result)]
    /\ UNCHANGED <<vids, poisoned, inbox, pend, nonce, sealed, attacks, cancelled, turn,
                   rx, got, lock, proc, tx, ws, walk>>

\* The caller takes the next result from the Receiver: rx.recv().await
Recv(db) ==
    /\ ~rx[db].dropped
    /\ chan[db] # <<>>
    /\ got' = [got EXCEPT ![db] = Append(@, Head(chan[db]))]
    /\ chan' = [chan EXCEPT ![db] = Tail(@)]
    /\ UNCHANGED <<vids, poisoned, inbox, task, pend, nonce, sealed, attacks, cancelled,
                   turn, rx, lock, proc, tx, ws, walk>>

\* The caller drops the Receiver; what the channel holds goes with it
DropChannel(db) ==
    /\ ~rx[db].dropped
    /\ rx' = [rx EXCEPT ![db] = Dropped(Len(sealed))]
    /\ chan' = [chan EXCEPT ![db] = <<>>]
    /\ UNCHANGED <<vids, poisoned, inbox, task, pend, nonce, sealed, attacks, cancelled,
                   turn, got, lock, proc, tx, ws, walk>>

\* The network delivers a frame a second time
Duplicate(db, i) ==
    /\ attacks < MaxAttack
    /\ i \in 1..Len(inbox[db])
    /\ Len(inbox[db]) < MaxInbox
    /\ inbox' = [inbox EXCEPT ![db] = Append(@, inbox[db][i])]
    /\ attacks' = attacks + 1
    /\ UNCHANGED <<vids, poisoned, chan, task, pend, nonce, sealed, cancelled, turn, rx, got, lock, proc, tx, ws, walk>>

\* The subscription stream yields an error item
StreamError(db) ==
    /\ attacks < MaxAttack
    /\ Len(inbox[db]) < MaxInbox
    /\ inbox' = [inbox EXCEPT ![db] = Append(@, TransportFailure)]
    /\ attacks' = attacks + 1
    /\ UNCHANGED <<vids, poisoned, chan, task, pend, nonce, sealed, cancelled, turn, rx, got, lock, proc, tx, ws, walk>>

\* The thread ids a caller may pass: the digests of the request envelopes
\* emitted so far and the all-zero digest.
Digests ==
    {DefaultDigest} \cup
    {Sha256(sealed[n].bytes) :
        n \in {i \in 1..Len(sealed) : sealed[i].op = "send_relationship_request"}}

\* The callers of a store use its own VID or an unknown one as sender, and
\* the other store's VID or an unknown one as receiver.
Peers(db) == Ids \ {OwnerOf[db]}
Senders(db) == {OwnerOf[db], RealBob}

\* The relationship protocol over a network that may replay a frame
Next ==
    \/ \E db \in Stores : \E sender \in Senders(db), receiver \in Peers(db),
          nc \in NonConfidential, message \in Messages :
          Send(db, sender, receiver, nc, message)
    \/ \E db \in Stores : \E sender \in Senders(db), receiver \in Peers(db) :
          SendRelationshipRequest(db, sender, receiver)
    \/ \E db \in Stores : \E sender \in Senders(db), receiver \in Peers(db),
          thread_id \in Digests :
          SendRelationshipAccept(db, sender, receiver, thread_id)
    \/ \E db \in Stores : \E sender \in Senders(db), receiver \in Peers(db) :
          SendRelationshipCancel(db, sender, receiver)
    \/ \E db \in Stores : Complete(db)
    \/ \E db \in Stores : ReceiveStep(db)
    \/ \E db \in Stores, i \in 1..MaxInbox : Duplicate(db, i)

Spec == Init /\ [][Next]_vars

\* Messages and cancels over a network that alters, replays and fails
NextFaulty ==
    \/ \E db \in Stores : \E sender \in Senders(db), receiver \in Peers(db),
          nc \in NonConfidential, message \in Messages :
          Send(db, sender, receiver, nc, message)
    \/ \E db \in Stores : \E sender \in Senders(db), receiver \in Peers(db),
          nc \in NonConfidential, message \in Messages, k \in 1..6, id \in Ids :
          FaultySend(db, sender, receiver, nc, message, k, id)
    \/ \E db \in Stores : \E sender \in Senders(db), receiver \in Peers(db) :
          SendRelationshipCancel(db, sender, receiver)
    \/ \E db \in Stores : ReceiveStep(db)
    \/ \E db \in Stores, i \in 1..MaxInbox : Duplicate(db, i)
    \/ \E db \in Stores : StreamError(db)

SpecFaulty == Init /\ [][NextFaulty]_vars

\* The Err item that is the k-th item of a subscription stream
StreamFailure(k) == [ok |-> FALSE, err |-> "Transport", seq |-> k]

\* The subscription stream yields an error item; the item carries the number
\* of items the network has delivered, itself included
Flood(db) ==
    /\ attacks < MaxFlood
    /\ Len(inbox[db]) < MaxInbox
    /\ inbox' = [inbox EXCEPT ![db] = Append(@, StreamFailure(attacks + Len(sealed) + 1))]
    /\ attacks' = attacks + 1
    /\ UNCHANGED <<vids, poisoned, chan, task, pend, nonce, sealed, cancelled, turn,
                   rx, got, lock, proc, tx, ws, walk>>

\* One message and a run of stream errors arrive at Bob's subscription faster
\* than Bob's caller takes the results
NextChannel ==
    \/ \E nc \in NonConfidential, message \in Messages :
          /\ sealed = <<>>
          /\ Send("alice_db", Alice, Bob, nc, message)
    \/ Flood("bob_db")
    \/ \E db \in Stores : ReceiveStep(db)
    \/ \E db \in Stores : Unblock(db)
    \/ \E db \in Stores : Recv(db)

SpecChannel == Init /\ [][NextChannel]_vars

\* A handshake while the callers take results from, or drop, the channels
\* that receive() gave them
NextDrop ==
    \/ \E db \in Stores : \E receiver \in Peers(db) \ {RealBob} :
          SendRelationshipRequest(db, OwnerOf[db], receiver)
    \/ \E db \in Stores : \E receiver \in Peers(db) \ {RealBob}, thread_id \in Digests :
          SendRelationshipAccept(db, OwnerOf[db], receiver, thread_id)
    \/ \E db \in Stores : Complete(db)
    \/ \E db \in Stores : ReceiveStep(db)
    \/ \E db \in Stores : Recv(db)
    \/ \E db \in Stores : DropChannel(db)

SpecDrop == Init /\ [][NextDrop]_vars

---------------------------------------------------------------------------
(* Nested and routed mode: the world of test_nested_mode and               *)
(* test_routed_mode                                                        *)

AliceNested == "alice_nested"
BobNested == "bob_nested"
ModeIds == Ids \cup {AliceNested, BobNested}

\* A VidContext with its relation and parent set
Context(private, relation_vid, parent_vid) ==
    [private |-> private,
     relation_status |-> Unrelated,
     relation_vid |-> relation_vid,
     parent_vid |-> parent_vid,
     tunnel |-> <<>>]

\* After the set-up of test_nested_mode and test_routed_mode: each store
\* owns its VID and a nested VID below it and has verified the other's two;
\* the relations are those the tests set.  No route is set yet.
InitModes ==
    /\ vids = [alice_db |->
                 (Alice :> Context(TRUE, Alice, None)
                  @@ Bob :> Context(FALSE, Alice, None)
                  @@ AliceNested :> Context(TRUE, BobNested, Alice)
                  @@ BobNested :> Context(FALSE, AliceNested, Bob)),
               bob_db |->
                 (Bob :> Context(TRUE, Alice, None)
                  @@ Alice :> Context(FALSE, Bob, None)
                  @@ BobNested :> Context(TRUE, None, Bob)
                  @@ AliceNested :> Context(FALSE, None, None))]
    /\ poisoned = [db \in Stores |-> FALSE]
    /\ inbox = [db \in Stores |-> <<>>]
    /\ chan = [db \in Stores |-> <<>>]
    /\ task = [db \in Stores |-> "running"]
    /\ pend = [db \in Stores |-> Idle]
    /\ nonce = 0
    /\ sealed = <<>>
    /\ attacks = 0
    /\ cancelled = [db \in Stores |-> {}]
    /\ turn = [db \in Stores |-> NoTurn]
    /\ rx = [db \in Stores |-> Held]
    /\ got = [db \in Stores |-> <<>>]
    /\ lock = Unlocked
    /\ proc = NoProcesses
    /\ tx = NoBroadcast
    /\ ws = NoSocket
    /\ walk = NoWalk

\* VidContext::set_route
SetRoute(context, route) == [context EXCEPT !.tunnel = route]

\* Store::modify_vid applied to set_route
ModifyVidRoute(v, p, vid, route) ==
    IF p THEN Returned(Err("Internal"), v)
    ELSE IF vid \in DOMAIN v
         THEN Returned([ok |-> TRUE], [v EXCEPT ![vid] = SetRoute(@, route)])
    ELSE Returned(ErrVid("UnverifiedVid", vid), v)

\* A variant of Store::set_route_for_vid without the length check
SetRouteForVidAny(v, p, vid, route) == ModifyVidRoute(v, p, vid, route)

\* Store::set_route_for_vid
SetRouteForVid(v, p, vid, route) ==
    IF Len(route) = 1 THEN Returned(Err("InvalidRoute"), v)
    ELSE ModifyVidRoute(v, p, vid, route)

\* A call of set_route_for_vid on a store; routes are configured before the
\* first message is sealed, as in test_routed_mode
CallSetRouteForVid(db, vid, route) ==
    /\ sealed = <<>>
    /\ vids' = [vids EXCEPT ![db] = SetRouteForVid(vids[db], poisoned[db], vid, route).vids]
    /\ UNCHANGED <<poisoned, inbox, chan, task, pend, nonce, sealed, attacks, cancelled,
                   turn, rx, got, lock, proc, tx, ws, walk>>

\* The routes a caller sets
Routes ==
    {<<>>, <<Bob>>, <<Bob, Bob>>, <<Bob, RealBob>>, <<Bob, Alice, RealBob>>,
     <<Bob, Alice, Alice>>}

\* A variant of send_nested that signs the non-confidential data and puts
\* the message in the clear
NestedEnvelopeSwapped(v, p, receiver, nc, message, n) ==
    LET inner_receiver == GetVerifiedVid(v, p, receiver)
    IN IF ~inner_receiver.ok THEN inner_receiver
       ELSE IF inner_receiver.ctx.parent_vid = None THEN Err("ResolveVid")
       ELSE IF inner_receiver.ctx.relation_vid = None THEN Err("ResolveVid")
       ELSE IF ~GetPrivateVid(v, p, inner_receiver.ctx.relation_vid).ok
            THEN GetPrivateVid(v, p, inner_receiver.ctx.relation_vid)
       ELSE IF v[inner_receiver.ctx.relation_vid].parent_vid = None
            THEN Err("ResolveVid")
       ELSE IF ~GetPrivateVid(v, p, v[inner_receiver.ctx.relation_vid].parent_vid).ok
            THEN GetPrivateVid(v, p, v[inner_receiver.ctx.relation_vid].parent_vid)
       ELSE IF ~GetVerifiedVid(v, p, inner_receiver.ctx.parent_vid).ok
            THEN GetVerifiedVid(v, p, inner_receiver.ctx.parent_vid)
       ELSE Sealed(
               "nested",
               Endpoint(inner_receiver.ctx.parent_vid),
               Seal(v[inner_receiver.ctx.relation_vid].parent_vid,
                    inner_receiver.ctx.parent_vid, message,
                    NestedMessage(
                        Sign(inner_receiver.ctx.relation_vid, receiver,
                             AsBytes(Content(nc)))),
                    n),
               1)

\* AsyncStore::send_nested up to its transport send; the message bytes are
\* those of Payload::Content
NestedEnvelope(v, p, receiver, nc, message, n) ==
    LET inner_receiver == GetVerifiedVid(v, p, receiver)
    IN IF ~inner_receiver.ok THEN inner_receiver
       ELSE IF inner_receiver.ctx.parent_vid = None THEN Err("ResolveVid")
       ELSE IF inner_receiver.ctx.relation_vid = None THEN Err("ResolveVid")
       ELSE LET inner_sender == GetPrivateVid(v, p, inner_receiver.ctx.relation_vid)
            IN IF ~inner_sender.ok THEN inner_sender
               ELSE IF inner_sender.ctx.parent_vid = None THEN Err("ResolveVid")
               ELSE LET parent_sender == GetPrivateVid(v, p, inner_sender.ctx.parent_vid)
                        parent_receiver ==
                            GetVerifiedVid(v, p, inner_receiver.ctx.parent_vid)
                    IN IF ~parent_sender.ok THEN parent_sender
                       ELSE IF ~parent_receiver.ok THEN parent_receiver
                       ELSE Sealed(
                               "nested",
                               Endpoint(inner_receiver.ctx.parent_vid),
                               Seal(inner_sender.ctx.parent_vid,
                                    inner_receiver.ctx.parent_vid, nc,
                                    NestedMessage(
                                        Sign(inner_receiver.ctx.relation_vid, receiver,
                                             AsBytes(Content(message)))),
                                    n),
                               1)

\* A variant of send_routed that leaves the first hop in the list of hops
RoutedEnvelopeAllHops(v, p, receiver, nc, message, n) ==
    LET inner_receiver == GetVerifiedVid(v, p, receiver)
    IN IF ~inner_receiver.ok THEN inner_receiver
       ELSE IF inner_receiver.ctx.tunnel = <<>> THEN Err("ResolveVid")
       ELSE LET intermediaries == inner_receiver.ctx.tunnel
                first_hop == GetVerifiedVid(v, p, intermediaries[1])
            IN IF ~first_hop.ok THEN first_hop
               ELSE IF first_hop.ctx.relation_vid = None THEN Err("ResolveVid")
               ELSE IF inner_receiver.ctx.relation_vid = None THEN Err("ResolveVid")
               ELSE IF ~GetPrivateVid(v, p, inner_receiver.ctx.relation_vid).ok
                    THEN GetPrivateVid(v, p, inner_receiver.ctx.relation_vid)
               ELSE IF ~GetPrivateVid(v, p, first_hop.ctx.relation_vid).ok
                    THEN GetPrivateVid(v, p, first_hop.ctx.relation_vid)
               ELSE Sealed(
                       "routed",
                       Endpoint(intermediaries[1]),
                       Seal(first_hop.ctx.relation_vid, intermediaries[1], None,
                            RoutedMessage(
                                intermediaries,
                                Seal(inner_receiver.ctx.relation_vid, receiver,
                                     nc, Content(message), n)),
                            n + 1),
                       2)

\* AsyncStore::send_routed up to its transport send
RoutedEnvelope(v, p, receiver, nc, message, n) ==
    LET inner_receiver == GetVerifiedVid(v, p, receiver)
    IN IF ~inner_receiver.ok THEN inner_receiver
       ELSE IF inner_receiver.ctx.tunnel = <<>> THEN Err("ResolveVid")
       ELSE LET intermediaries == inner_receiver.ctx.tunnel
                first_hop == GetVerifiedVid(v, p, intermediaries[1])
            IN IF ~first_hop.ok THEN first_hop
               ELSE IF first_hop.ctx.relation_vid = None THEN Err("ResolveVid")
               ELSE IF inner_receiver.ctx.relation_vid = None THEN Err("ResolveVid")
               ELSE LET inner_sender ==
                            GetPrivateVid(v, p, inner_receiver.ctx.relation_vid)
                        first_sender == GetPrivateVid(v, p, first_hop.ctx.relation_vid)
                    IN IF ~inner_sender.ok THEN inner_sender
                       ELSE IF ~first_sender.ok THEN first_sender
                       ELSE Sealed(
                               "routed",
                               Endpoint(intermediaries[1]),
                               Seal(first_hop.ctx.relation_vid, intermediaries[1], None,
                                    RoutedMessage(
                                        Tail(intermediaries),
                                        Seal(inner_receiver.ctx.relation_vid, receiver,
                                             nc, Content(message), n)),
                                    n + 1),
                               2)

\* The transport send that ends send_nested and send_routed
SendSealed(db, op, m, receiver, nc, message) ==
    IF ~m.ok THEN Returns(db, op, m)
    ELSE /\ nonce + m.used <= MaxSeal
         /\ TransportSend(m.endpoint, m.bytes)
         /\ nonce' = nonce + m.used
         /\ sealed' = Append(sealed,
                             Call(op, m.mode, m.bytes.ciphertext.payload.inner.sender,
                                  receiver, nc, message, DefaultDigest, m.bytes))
         /\ UNCHANGED <<vids, poisoned, chan, task, pend, attacks, cancelled, turn, rx, got, lock, proc, tx, ws, walk>>

\* AsyncStore::send_nested
SendNested(db, receiver, nc, message) ==
    /\ nonce < MaxSeal
    /\ SendSealed(db, "send_nested",
                  NestedEnvelope(vids[db], poisoned[db], receiver, nc, message, nonce + 1),
                  receiver, nc, message)

\* AsyncStore::send_routed
SendRouted(db, receiver, nc, message) ==
    /\ nonce < MaxSeal
    /\ SendSealed(db, "send_routed",
                  RoutedEnvelope(vids[db], poisoned[db], receiver, nc, message, nonce + 1),
                  receiver, nc, message)

\* A forward whose final delivery takes any known VID as the drop-off VID
ForwardSealAnyDropOff(v, p, next_hop, path, opaque, n) ==
    IF path = <<>>
    THEN LET sender == GetVerifiedVid(v, p, next_hop)
         IN IF ~sender.ok THEN sender
            ELSE IF sender.ctx.relation_vid = None THEN Err("ResolveVid")
            ELSE LET recipient == GetVerifiedVid(v, p, sender.ctx.relation_vid)
                 IN IF ~recipient.ok THEN recipient
                    ELSE Sealed("final", Endpoint(sender.ctx.relation_vid),
                                Seal(next_hop, sender.ctx.relation_vid, None,
                                     NestedMessage(opaque), n),
                                1)
    ELSE LET hop == GetVerifiedVid(v, p, next_hop)
         IN IF ~hop.ok THEN hop
            ELSE IF hop.ctx.relation_vid = None THEN Err("ResolveVid")
            ELSE LET sender == GetPrivateVid(v, p, hop.ctx.relation_vid)
                 IN IF ~sender.ok THEN sender
                    ELSE Sealed("hop", Endpoint(next_hop),
                                Seal(hop.ctx.relation_vid, next_hop, None,
                                     RoutedMessage(path, opaque), n),
                                1)

\* A forward whose intermediary drops the first of the remaining hops
ForwardSealPopPath(v, p, next_hop, path, opaque, n) ==
    IF path = <<>>
    THEN LET sender == GetPrivateVid(v, p, next_hop)
         IN IF ~sender.ok THEN sender
            ELSE IF sender.ctx.relation_vid = None THEN Err("ResolveVid")
            ELSE LET recipient == GetVerifiedVid(v, p, sender.ctx.relation_vid)
                 IN IF ~recipient.ok THEN recipient
                    ELSE Sealed("final", Endpoint(sender.ctx.relation_vid),
                                Seal(next_hop, sender.ctx.relation_vid, None,
                                     NestedMessage(opaque), n),
                                1)
    ELSE LET hop == GetVerifiedVid(v, p, next_hop)
         IN IF ~hop.ok THEN hop
            ELSE IF hop.ctx.relation_vid = None THEN Err("ResolveVid")
            ELSE LET sender == GetPrivateVid(v, p, hop.ctx.relation_vid)
                 IN IF ~sender.ok THEN sender
                    ELSE Sealed("hop", Endpoint(next_hop),
                                Seal(hop.ctx.relation_vid, next_hop, None,
                                     RoutedMessage(Tail(path), opaque), n),
                                1)

\* AsyncStore::forward_routed_message up to its transport send
ForwardSeal(v, p, next_hop, path, opaque, n) ==
    IF path = <<>>
    THEN LET sender == GetPrivateVid(v, p, next_hop)
         IN IF ~sender.ok THEN sender
            ELSE IF sender.ctx.relation_vid = None THEN Err("ResolveVid")
            ELSE LET recipient == GetVerifiedVid(v, p, sender.ctx.relation_vid)
                 IN IF ~recipient.ok THEN recipient
                    ELSE Sealed("final", Endpoint(sender.ctx.relation_vid),
                                Seal(next_hop, sender.ctx.relation_vid, None,
                                     NestedMessage(opaque), n),
                                1)
    ELSE LET hop == GetVerifiedVid(v, p, next_hop)
         IN IF ~hop.ok THEN hop
            ELSE IF hop.ctx.relation_vid = None THEN Err("ResolveVid")
            ELSE LET sender == GetPrivateVid(v, p, hop.ctx.relation_vid)
                 IN IF ~sender.ok THEN sender
                    ELSE Sealed("hop", Endpoint(next_hop),
                                Seal(hop.ctx.relation_vid, next_hop, None,
                                     RoutedMessage(path, opaque), n),
                                1)

\* The calls of forward_routed_message that have sealed an envelope
Forwarded == {k \in 1..Len(sealed) : sealed[k].op = "forward_routed_message"}

\* The nonce the next forward seals with: the envelopes of forwarders take
\* their nonces above those of the senders
ForwardNonce == MaxSeal + 1 + Cardinality(Forwarded)

\* AsyncStore::forward_routed_message
ForwardRoutedMessage(db, next_hop, path, opaque) ==
    /\ Cardinality(Forwarded) < MaxForward
    /\ LET m == ForwardSeal(vids[db], poisoned[db], next_hop, path, opaque,
                            ForwardNonce)
       IN IF ~m.ok THEN Returns(db, "forward_routed_message", m)
          ELSE /\ TransportSend(m.endpoint, m.bytes)
               /\ sealed' = Append(sealed,
                                   Call("forward_routed_message", m.mode,
                                        m.bytes.sender, m.bytes.receiver, None, "",
                                        DefaultDigest, m.bytes))
               /\ UNCHANGED <<vids, poisoned, chan, task, pend, nonce, attacks,
                              cancelled, turn, rx, got, lock, proc, tx, ws, walk>>

\* The ForwardRequests a store's caller has received
Forwardable(db) ==
    {chan[db][i] : i \in {j \in 1..Len(chan[db]) :
                            chan[db][j].ok /\ chan[db][j].kind = "ForwardRequest"}}

\* What the caller forwards: the request as received (route_message), or,
\* as the test does, to its own VID as the final hop; and, as an opaque
\* payload of its own, the frame its task took last
ForwardInputs(db) ==
    UNION {{[next_hop |-> fr.next_hop, path |-> fr.route, opaque |-> fr.opaque_payload],
            [next_hop |-> OwnerOf[db], path |-> <<>>, opaque |-> fr.opaque_payload]} :
           fr \in Forwardable(db)}
    \cup (IF turn[db].taken /\ turn[db].message.ok
          THEN {[next_hop |-> OwnerOf[db], path |-> <<>>,
                 opaque |-> turn[db].message.bytes]}
          ELSE {})

\* Messages in direct, nested and routed mode, sent by the store of Alice
NextModes ==
    \/ \E receiver \in {Alice, Bob, BobNested}, message \in Messages :
          Send("alice_db", Alice, receiver, None, message)
    \/ \E receiver \in {Alice, Bob, BobNested}, nc \in NonConfidential \ {None},
          message \in Messages :
          \/ SendNested("alice_db", receiver, nc, message)
          \/ SendRouted("alice_db", receiver, nc, message)
    \/ \E vid \in {Alice, BobNested, RealBob}, route \in Routes :
          CallSetRouteForVid("alice_db", vid, route)
    \/ \E db \in Stores : \E f \in ForwardInputs(db) :
          ForwardRoutedMessage(db, f.next_hop, f.path, f.opaque)
    \/ \E db \in Stores : ReceiveStep(db)

SpecModes == InitModes /\ [][NextModes]_vars

---------------------------------------------------------------------------
(* Vocabulary of the properties *)

\* The calls of one operation that emitted an envelope
Calls(op) == {n \in 1..Len(sealed) : sealed[n].op = op}

\* The last turn of db's receive task took the envelope that call n emitted
Took(db, n) == turn[db].taken /\ turn[db].message = Frame(sealed[n].bytes)

StatusOf(v, id) == v[id].relation_status

\* What the last envelope taken by db's receive task opens to
Inbound(db) ==
    LET env == turn[db].message.bytes
    IN CryptoOpen(env.receiver, env.sender, env)

\* The last turn of db's receive task took an envelope, addressed to a VID
\* the store owns by a VID it has verified, that opens to a payload of `kind`
Delivered(db, kind) ==
    /\ turn[db].taken
    /\ turn[db].message.ok
    /\ Probe(turn[db].message.bytes).ok
    /\ turn[db].message.bytes.ciphertext.present
    /\ HasPrivateVid(turn[db].before, FALSE, turn[db].message.bytes.receiver)
    /\ GetVerifiedVid(turn[db].before, FALSE, turn[db].message.bytes.sender).ok
    /\ Inbound(db).ok
    /\ Inbound(db).payload.kind = kind

InboundSender(db) == turn[db].message.bytes.sender
InboundThread(db) == Inbound(db).payload.thread_id

---------------------------------------------------------------------------
(* C1: Relationship handshake.  When the receiver's task takes the frame   *)
(* of a send_relationship_request(A, B) it yields RequestRelationship with *)
(* sender A and the thread id t of the request; when A's task, with A's    *)
(* status for B being Unidirectional(t) (the request has completed), takes *)
(* the frame of send_relationship_accept(B, A, t) it yields                *)
(* AcceptRelationship with sender B and A's status for B becomes           *)
(* Bidirectional(t).                                                       *)
C1_Handshake ==
    \A db \in Stores :
        /\ \A n \in Calls("send_relationship_request") :
              Took(db, n) =>
                  turn[db].result = ReceivedRequest(sealed[n].sender, sealed[n].thread_id)
        /\ \A n \in Calls("send_relationship_accept") :
              ( /\ Took(db, n)
                /\ StatusOf(turn[db].before, sealed[n].sender)
                       = Unidirectional(sealed[n].thread_id) )
              => /\ turn[db].result = ReceivedAccept(sealed[n].sender)
                 /\ StatusOf(turn[db].after, sealed[n].sender)
                        = Bidirectional(sealed[n].thread_id)

\* The handshake of test_relation_forming has run to its end
C1_Witness ==
    \E r \in Calls("send_relationship_request"), a \in Calls("send_relationship_accept") :
        /\ sealed[r].sender = Alice /\ sealed[r].receiver = Bob
        /\ sealed[a].sender = Bob /\ sealed[a].receiver = Alice
        /\ sealed[a].thread_id = sealed[r].thread_id
        /\ Took("bob_db", r)
        /\ turn["bob_db"].result = ReceivedRequest(Alice, sealed[r].thread_id)
        /\ Took("alice_db", a)
        /\ StatusOf(turn["alice_db"].before, Bob) = Unidirectional(sealed[r].thread_id)
        /\ turn["alice_db"].result = ReceivedAccept(Bob)
        /\ StatusOf(vids["alice_db"], Bob) = Bidirectional(sealed[r].thread_id)

(* C2: An inbound AcceptRelationship{thread_id} from S is accepted only    *)
(* when the status for S is Unidirectional(thread_id); in every other case *)
(* open_message returns a Relationship error and leaves the status for S   *)
(* as it was.                                                              *)
C2_AcceptOnlyPending ==
    \A db \in Stores :
        Delivered(db, "AcceptRelationship") =>
            LET before == StatusOf(turn[db].before, InboundSender(db))
                after == StatusOf(turn[db].after, InboundSender(db))
            IN /\ turn[db].result.ok => before = Unidirectional(InboundThread(db))
               /\ before # Unidirectional(InboundThread(db)) =>
                      /\ turn[db].result = Err("Relationship")
                      /\ after = before

\* An Accept with another thread id than the pending one was rejected
C2_Witness ==
    \E db \in Stores :
        /\ Delivered(db, "AcceptRelationship")
        /\ StatusOf(turn[db].before, InboundSender(db)).kind = "Unidirectional"
        /\ StatusOf(turn[db].before, InboundSender(db)).digest # InboundThread(db)
        /\ turn[db].result = Err("Relationship")
        /\ StatusOf(vids[db], InboundSender(db)) = StatusOf(turn[db].before, InboundSender(db))

\* Peer P emitted an AcceptRelationship{t} to the owner of db
PeerAccepted(db, P, t) ==
    \E n \in Calls("send_relationship_accept") :
        /\ sealed[n].sender = P
        /\ sealed[n].receiver = OwnerOf[db]
        /\ sealed[n].thread_id = t

\* t is the digest of a RequestRelationship envelope db's owner emitted to P
WeRequested(db, P, t) ==
    \E n \in Calls("send_relationship_request") :
        /\ sealed[n].sender = OwnerOf[db]
        /\ sealed[n].receiver = P
        /\ Sha256(sealed[n].bytes) = t

\* The owner of db emitted an AcceptRelationship{t} to P
WeAccepted(db, P, t) ==
    \E n \in Calls("send_relationship_accept") :
        /\ sealed[n].sender = OwnerOf[db]
        /\ sealed[n].receiver = P
        /\ sealed[n].thread_id = t

(* C3, as the code has it: a status Bidirectional(t) for a peer P implies  *)
(* that P sent an AcceptRelationship{t} and t is the digest of a           *)
(* RequestRelationship this store sent to P, or that this store itself     *)
(* sent an AcceptRelationship{t} to P with send_relationship_accept.       *)
C3_BidirectionalOrigin ==
    \A db \in Stores : \A P \in DOMAIN vids[db] :
        StatusOf(vids[db], P).kind = "Bidirectional" =>
            \/ /\ PeerAccepted(db, P, StatusOf(vids[db], P).digest)
               /\ WeRequested(db, P, StatusOf(vids[db], P).digest)
            \/ WeAccepted(db, P, StatusOf(vids[db], P).digest)

\* Both sides of a handshake are Bidirectional, one by each way
C3_Witness ==
    \E t \in Digests :
        /\ StatusOf(vids["alice_db"], Bob) = Bidirectional(t)
        /\ PeerAccepted("alice_db", Bob, t) /\ WeRequested("alice_db", Bob, t)
        /\ StatusOf(vids["bob_db"], Alice) = Bidirectional(t)
        /\ WeAccepted("bob_db", Alice, t) /\ ~PeerAccepted("bob_db", Alice, t)

(* C3, as stated: a status Bidirectional(t) for a peer P implies that P    *)
(* sent an AcceptRelationship{t} and that t is the digest of a             *)
(* RequestRelationship this store sent to P.                               *)
C3_AsStated ==
    \A db \in Stores : \A P \in DOMAIN vids[db] :
        StatusOf(vids[db], P).kind = "Bidirectional" =>
            /\ PeerAccepted(db, P, StatusOf(vids[db], P).digest)
            /\ WeRequested(db, P, StatusOf(vids[db], P).digest)

(* C4: Cancel after a handshake.  When A, whose status for B was           *)
(* Bidirectional(t), has called send_relationship_cancel(A, B) and B's     *)
(* task, with B's status for A being Bidirectional(t), takes the Cancel    *)
(* frame, it yields CancelRelationship with sender A and B's status for A  *)
(* becomes Unrelated, as A's status for B did.                             *)
C4_CancelAfterHandshake ==
    \A db \in Stores : \A n \in Calls("send_relationship_cancel") :
        ( /\ Took(db, n)
          /\ StatusOf(turn[db].before, sealed[n].sender).kind = "Bidirectional"
          /\ <<sealed[n].receiver, StatusOf(turn[db].before, sealed[n].sender)>>
                 \in cancelled[Endpoint(sealed[n].sender)] )
        => /\ turn[db].result = ReceivedCancel(sealed[n].sender)
           /\ StatusOf(turn[db].after, sealed[n].sender) = Unrelated

(* C5: An inbound CancelRelationship from a sender whose status is         *)
(* Unrelated is a no-op: open_message returns Ok(CancelRelationship) with  *)
(* the sender, the status stays Unrelated, and the call does not panic.    *)
C5_CancelFromUnrelated ==
    \A db \in Stores :
        ( /\ Delivered(db, "CancelRelationship")
          /\ StatusOf(turn[db].before, InboundSender(db)) = Unrelated )
        => /\ ~turn[db].panicked
           /\ turn[db].result = ReceivedCancel(InboundSender(db))
           /\ StatusOf(turn[db].after, InboundSender(db)) = Unrelated

\* The store ended a relationship of thread t with S before its last turn
EndedBefore(db, S, t) ==
    \E e \in turn[db].ended : e[1] = S /\ e[2].digest = t

(* C6: After a relationship with thread t has been cancelled, a later      *)
(* inbound AcceptRelationship carrying t never promotes: it is rejected    *)
(* with a Relationship error and the status stays what it was (Unrelated,  *)
(* unless the store has started another thread since).                     *)
C6_StaleAccept ==
    \A db \in Stores :
        ( /\ Delivered(db, "AcceptRelationship")
          /\ EndedBefore(db, InboundSender(db), InboundThread(db)) )
        => /\ turn[db].result = Err("Relationship")
           /\ StatusOf(turn[db].after, InboundSender(db))
                  = StatusOf(turn[db].before, InboundSender(db))

\* A replayed Accept of a cancelled, once Bidirectional, thread was rejected
C6_Witness ==
    \E db \in Stores :
        /\ Delivered(db, "AcceptRelationship")
        /\ <<InboundSender(db), Bidirectional(InboundThread(db))>> \in turn[db].ended
        /\ StatusOf(turn[db].before, InboundSender(db)) = Unrelated
        /\ turn[db].result = Err("Relationship")
        /\ StatusOf(vids[db], InboundSender(db)) = Unrelated

(* C7: The thread id that send_relationship_request records in the         *)
(* relation status (the digest of the envelope it emitted) equals the      *)
(* thread id that the receiver's open_message reports in                   *)
(* RequestRelationship for that envelope.                                  *)
C7_ThreadId ==
    \A s \in Stores, db \in Stores : \A R \in DOMAIN vids[s] :
        \A n \in Calls("send_relationship_request") :
            ( /\ StatusOf(vids[s], R).kind = "Unidirectional"
              /\ sealed[n].sender = OwnerOf[s]
              /\ sealed[n].receiver = R
              /\ sealed[n].thread_id = StatusOf(vids[s], R).digest
              /\ Took(db, n) )
            => /\ turn[db].result.ok
               /\ turn[db].result.kind = "RequestRelationship"
               /\ turn[db].result.thread_id = StatusOf(vids[s], R).digest

\* Alice holds Unidirectional(t) for Bob and Bob's task reported the request
C7_Witness ==
    \E n \in Calls("send_relationship_request") :
        /\ StatusOf(vids["alice_db"], Bob) = Unidirectional(sealed[n].thread_id)
        /\ sealed[n].sender = Alice
        /\ Took("bob_db", n)
        /\ turn["bob_db"].result.ok
        /\ turn["bob_db"].result.thread_id = sealed[n].thread_id

(* C8: Receive-pipeline resilience.  For every inbound item the task puts *)
(* one Result into the channel and goes on: the task of every store keeps  *)
(* running, and the Result of its last turn is the last item of the        *)
(* channel.                                                                *)
C8_Resilience ==
    \A db \in Stores :
        /\ task[db] = "running"
        /\ turn[db].taken =>
              /\ ~turn[db].panicked
              /\ chan[db] # <<>>
              /\ chan[db][Len(chan[db])] = turn[db].result

\* The last item db's task took is an envelope of faulty_send, altered
Altered(db) ==
    /\ turn[db].taken
    /\ turn[db].message.ok
    /\ \E n \in Calls("faulty_send") :
          /\ turn[db].message.bytes.ciphertext = sealed[n].bytes.ciphertext
          /\ turn[db].message.bytes # sealed[n].bytes

(* C9: Tamper rejection.  When an envelope sealed with Content is          *)
(* delivered with a byte altered, the receiver's channel yields Err for    *)
(* that frame; no GenericMessage is emitted for it.                        *)
C9_TamperRejected ==
    \A db \in Stores :
        Altered(db) =>
            /\ ~turn[db].result.ok
            /\ ~turn[db].panicked
            /\ chan[db] # <<>>
            /\ chan[db][Len(chan[db])] = turn[db].result

\* Bob's channel yielded an Err for an altered envelope of Alice
C9_Witness ==
    /\ Altered("bob_db")
    /\ ~turn["bob_db"].result.ok
    /\ chan["bob_db"][Len(chan["bob_db"])] = turn["bob_db"].result

---------------------------------------------------------------------------
(* Routed and nested mode *)

\* The store that owns `id`, and the tunnel that the store which made call n
\* holds for the call's receiver, which is the tunnel the call sealed with (routes are set before the first message is sealed)
\* The calls that sealed in `mode`
SentIn(mode) == {n \in 1..Len(sealed) : sealed[n].mode = mode}

StoreOf(id) == CHOOSE db \in Stores : id \in DOMAIN vids[db] /\ vids[db][id].private
TunnelOf(n) == vids[StoreOf(sealed[n].sender)][sealed[n].receiver].tunnel

(* C11, as the code has it: for every inbound RoutedMessage(hops, inner)   *)
(* that passes the outer checks, open_message yields ForwardRequest        *)
(* {sender = sender of the outer envelope, next_hop = hops[0], route =     *)
(* hops[1..], opaque_payload = inner} when hops[0] is a VID the receiving  *)
(* store has, and the error UnverifiedVid(hops[0]) when it is not; so when *)
(* a store sends to a receiver whose tunnel is [T0, T1, ..., Tk] and the   *)
(* store owning T0 has T1, it gets a ForwardRequest with next_hop = T1 and *)
(* route = [T2, ..., Tk].                                                  *)
C11_RoutedReception ==
    \A db \in Stores :
        /\ Delivered(db, "RoutedMessage") =>
              LET hops == Inbound(db).payload.hops
                  inner == Inbound(db).payload.inner
              IN hops # <<>> =>
                   IF GetVerifiedVid(turn[db].before, FALSE, hops[1]).ok
                   THEN turn[db].result
                          = ForwardRequest(InboundSender(db), hops[1], Tail(hops), inner)
                   ELSE turn[db].result = ErrVid("UnverifiedVid", hops[1])
        /\ \A n \in SentIn("routed") :
              ( /\ Took(db, n)
                /\ TunnelOf(n)[2] \in DOMAIN turn[db].before )
              => /\ turn[db].result.ok
                 /\ turn[db].result.kind = "ForwardRequest"
                 /\ turn[db].result.next_hop = TunnelOf(n)[2]
                 /\ turn[db].result.route = Tail(Tail(TunnelOf(n)))

\* Bob received the ForwardRequest of test_routed_mode: the route set for
\* Alice is [bob, alice, realbob]
C11_Witness ==
    \E n \in SentIn("routed") :
        /\ TunnelOf(n) = <<Bob, Alice, RealBob>>
        /\ Took("bob_db", n)
        /\ Delivered("bob_db", "RoutedMessage")
        /\ turn["bob_db"].result.ok
        /\ turn["bob_db"].result.sender = Alice
        /\ turn["bob_db"].result.next_hop = Alice
        /\ turn["bob_db"].result.route = <<RealBob>>

(* C11, as stated: every inbound RoutedMessage(hops, inner) that passes    *)
(* the outer checks yields a ForwardRequest with next_hop = hops[0] and    *)
(* route = hops[1..].                                                      *)
C11_AsStated ==
    \A db \in Stores :
        Delivered(db, "RoutedMessage") =>
            turn[db].result
              = ForwardRequest(InboundSender(db), Inbound(db).payload.hops[1],
                               Tail(Inbound(db).payload.hops),
                               Inbound(db).payload.inner)

\* The opaque payload that call k wrapped, and the hops it put before it
Opaque(k) == sealed[k].bytes.ciphertext.payload.inner
Hops(k) == sealed[k].bytes.ciphertext.payload.hops

\* The calls that wrapped the opaque payload o: the routed send that made it
\* and the forwards that passed it on
Carriers(o) ==
    {k \in 1..Len(sealed) : sealed[k].mode \in {"routed", "hop", "final"} /\ Opaque(k) = o}

\* Forward call k passed on a ForwardRequest as its store received it: an
\* earlier envelope with the same opaque payload names, as the first of its
\* hops, the VID the call forwarded to (or, for the final hop, from)
AsReceived(k) ==
    \E e \in Carriers(Opaque(k)) :
        /\ e < k
        /\ sealed[e].mode \in {"routed", "hop"}
        /\ Hops(e) = IF sealed[k].mode = "hop"
                     THEN <<sealed[k].receiver>> \o Hops(k)
                     ELSE <<sealed[k].sender>>

\* The forwards of the opaque payload o up to call f, each made once and as
\* received
ForwardsUpTo(o, f) == {k \in Carriers(o) \cap Forwarded : k <= f}
InTurn(o, f) ==
    /\ \A k \in ForwardsUpTo(o, f) : AsReceived(k)
    /\ \A k, l \in ForwardsUpTo(o, f) : sealed[k].bytes.ciphertext.payload
                                          = sealed[l].bytes.ciphertext.payload => k = l

\* Call n is a routed send of a store to a VID of its own
SelfRoute(n) == n \in SentIn("routed") /\ Opaque(n).sender = Opaque(n).receiver

(* C12, as the code has it: for a routed self-send A -> [H1, H2, ..., Hn]  *)
(* -> A, H1 receives a ForwardRequest whose next_hop is H2 and whose route *)
(* equals [H3, ..., Hn], and when every intermediary forwards the request  *)
(* as it received it, the final deliverer (the store that owns Hn) makes   *)
(* the (n-1)-th forward, which produces at A a GenericMessage with the     *)
(* original plaintext.                                                     *)
C12_SelfRoute ==
    \A n \in 1..Len(sealed) : SelfRoute(n) =>
        \A db \in Stores :
           /\ ( Took(db, n) /\ TunnelOf(n)[2] \in DOMAIN turn[db].before )
              => /\ turn[db].result.ok
                 /\ turn[db].result.kind = "ForwardRequest"
                 /\ turn[db].result.next_hop = TunnelOf(n)[2]
                 /\ turn[db].result.route = Tail(Tail(TunnelOf(n)))
           /\ \A f \in Carriers(Opaque(n)) :
                 ( /\ sealed[f].mode = "final"
                   /\ InTurn(Opaque(n), f)
                   /\ Took(db, f) )
                 => /\ Cardinality(ForwardsUpTo(Opaque(n), f)) = Len(TunnelOf(n)) - 1
                    /\ sealed[f].sender = TunnelOf(n)[Len(TunnelOf(n))]
                    /\ turn[db].result
                         = GenericMessage(Opaque(n).sender, sealed[n].nc,
                                          sealed[n].message, "SignedAndEncrypted")

\* Alice sent to herself by the route [bob, alice, alice]; Bob forwarded to
\* Alice, Alice forwarded for the final hop, and Alice's task delivered
C12_Witness ==
    \E n \in SentIn("routed") : \E f \in Carriers(Opaque(n)) :
        /\ SelfRoute(n)
        /\ TunnelOf(n) = <<Bob, Alice, Alice>>
        /\ sealed[f].mode = "final"
        /\ InTurn(Opaque(n), f)
        /\ Cardinality(ForwardsUpTo(Opaque(n), f)) = 2
        /\ Took("alice_db", f)
        /\ turn["alice_db"].result.ok
        /\ turn["alice_db"].result.kind = "GenericMessage"
        /\ turn["alice_db"].result.message = sealed[n].message

(* C12, as stated: H1 receives a ForwardRequest whose route equals [H2,    *)
(* ..., Hn], and the final delivery at A comes after n forwards.           *)
C12_AsStated ==
    \A n \in 1..Len(sealed) : SelfRoute(n) =>
        \A db \in Stores :
           /\ ( Took(db, n) /\ turn[db].result.ok )
              => turn[db].result.route = Tail(TunnelOf(n))
           /\ \A f \in Carriers(Opaque(n)) :
                 ( /\ sealed[f].mode = "final"
                   /\ InTurn(Opaque(n), f)
                   /\ Took(db, f) )
                 => /\ Cardinality(ForwardsUpTo(Opaque(n), f)) = Len(TunnelOf(n))
                    /\ turn[db].result.ok
                    /\ turn[db].result.message = sealed[n].message

(* C13: Final delivery of a routed message.  When the last intermediary   *)
(* has called forward_routed_message(next_hop = one of its own VIDs, path  *)
(* = [], opaque), the relation of that VID being the final recipient R,    *)
(* and R's store (which owns the receiver of the inner envelope and has    *)
(* its sender) takes the frame, open_message yields a GenericMessage whose *)
(* message is the original plaintext and whose sender is the sender of the *)
(* original inner envelope, not the intermediary.                          *)
C13_FinalDelivery ==
    \A db \in Stores : \A f \in Forwarded : \A n \in SentIn("routed") :
        ( /\ sealed[f].mode = "final"
          /\ Opaque(f) = Opaque(n)
          /\ Took(db, f)
          /\ Delivered(db, "NestedMessage")
          /\ HasPrivateVid(turn[db].before, FALSE, Opaque(n).receiver)
          /\ GetVerifiedVid(turn[db].before, FALSE, Opaque(n).sender).ok )
        => /\ turn[db].result.ok
           /\ turn[db].result.kind = "GenericMessage"
           /\ turn[db].result.message = sealed[n].message
           /\ turn[db].result.sender = Opaque(n).sender

\* The last step of test_routed_mode: Bob forwarded with next_hop = bob and
\* an empty path, and Alice's task yields her own message with sender alice
C13_Witness ==
    \E f \in Forwarded : \E n \in SentIn("routed") :
        /\ sealed[f].mode = "final"
        /\ sealed[f].sender = Bob
        /\ sealed[f].receiver = Alice
        /\ Opaque(f) = Opaque(n)
        /\ Took("alice_db", f)
        /\ turn["alice_db"].result.ok
        /\ turn["alice_db"].result.kind = "GenericMessage"
        /\ turn["alice_db"].result.message = sealed[n].message
        /\ turn["alice_db"].result.sender = Alice

\* The context that the store which made call n holds for the call's
\* receiver R: it names R's parent P_R and the inner sender I_S
ReceiverContext(n) == vids[StoreOf(sealed[n].sender)][sealed[n].receiver]
InnerSender(n) == ReceiverContext(n).relation_vid
ParentOf(n, id) == vids[StoreOf(sealed[n].sender)][id].parent_vid

(* C14: Nested round trip.  If receiver R has parent_vid P_R and           *)
(* relation_vid I_S, I_S being an owned VID of the sending store whose     *)
(* parent P_S is also owned there, a message m sent to R goes to P_R's     *)
(* endpoint, sealed from P_S to P_R, and at a store that owns P_R and R    *)
(* and has verified P_S and I_S, open_message of that frame yields a       *)
(* GenericMessage whose message equals m.                                  *)
C14_NestedRoundTrip ==
    \A n \in SentIn("nested") :
        /\ sealed[n].bytes.receiver = ReceiverContext(n).parent_vid
        /\ sealed[n].bytes.sender = ParentOf(n, InnerSender(n))
        /\ \A db \in Stores :
              /\ Frame(sealed[n].bytes) \in {inbox[db][i] : i \in 1..Len(inbox[db])}
                    => db = Endpoint(ReceiverContext(n).parent_vid)
              /\ Took(db, n) => db = Endpoint(ReceiverContext(n).parent_vid)
              /\ ( /\ Took(db, n)
                   /\ HasPrivateVid(turn[db].before, FALSE, ReceiverContext(n).parent_vid)
                   /\ HasPrivateVid(turn[db].before, FALSE, sealed[n].receiver)
                   /\ GetVerifiedVid(turn[db].before, FALSE,
                                     ParentOf(n, InnerSender(n))).ok
                   /\ GetVerifiedVid(turn[db].before, FALSE, InnerSender(n)).ok )
                 => /\ turn[db].result.ok
                    /\ turn[db].result.kind = "GenericMessage"
                    /\ turn[db].result.message = AsBytes(Content(sealed[n].message))
                    /\ turn[db].result.sender = InnerSender(n)

\* test_nested_mode: send_nested to nested_bob went to Bob's endpoint and
\* Bob's task yields the message
C14_Witness ==
    \E n \in Calls("send_nested") :
        /\ sealed[n].receiver = BobNested
        /\ sealed[n].bytes.receiver = Bob
        /\ sealed[n].nc = "extra non-confidential data"
        /\ Took("bob_db", n)
        /\ turn["bob_db"].result.ok
        /\ turn["bob_db"].result.kind = "GenericMessage"
        /\ turn["bob_db"].result.message.bytes = sealed[n].message

\* What open_message returns for the envelope nested in the last envelope
\* db's task took, on the store as it was before that turn
InnerOutcome(db) == OpenMessage(turn[db].before, FALSE, Inbound(db).payload.inner)

(* C15: Nested unwrap.  For every outer encrypted frame that passes the    *)
(* outer checks and whose payload is NestedMessage(inner), open_message of *)
(* the outer frame returns exactly what open_message(inner) returns on the *)
(* same store, the same Ok value or the same error, and leaves the store   *)
(* as open_message(inner) does, for any depth of nesting.                  *)
C15_NestedUnwrap ==
    \A db \in Stores :
        Delivered(db, "NestedMessage") =>
            /\ turn[db].result = InnerOutcome(db).res
            /\ turn[db].after = InnerOutcome(db).vids
            /\ turn[db].panicked = InnerOutcome(db).panicked

\* A frame nested two deep was opened down to its message: the envelope in
\* the frame is itself an encrypted envelope that carries a NestedMessage
C15_Witness ==
    \E db \in Stores :
        /\ Delivered(db, "NestedMessage")
        /\ Inbound(db).payload.inner.ciphertext.present
        /\ Inbound(db).payload.inner.ciphertext.payload.kind = "NestedMessage"
        /\ turn[db].result.ok
        /\ turn[db].result.kind = "GenericMessage"
        /\ turn[db].result = InnerOutcome(db).res

(* C16: After any sequence of store operations, every VidContext whose    *)
(* tunnel is present has a tunnel of at least 2 entries; set_route_for_vid *)
(* called with a route of exactly one entry returns InvalidRoute and       *)
(* leaves the previous tunnel of that VID, and the rest of the store,      *)
(* unchanged.                                                              *)
C16_TunnelLength ==
    \A db \in Stores :
        /\ \A id \in DOMAIN vids[db] :
              vids[db][id].tunnel # <<>> => Len(vids[db][id].tunnel) >= 2
        /\ \A vid \in ModeIds, route \in Routes :
              Len(route) = 1 =>
                  SetRouteForVid(vids[db], poisoned[db], vid, route)
                      = Returned(Err("InvalidRoute"), vids[db])

\* A VID has the route of test_routed_mode, and a call with a route of one
\* entry for it returns InvalidRoute and keeps that route
C16_Witness ==
    /\ vids["alice_db"][Alice].tunnel = <<Bob, Alice, RealBob>>
    /\ SetRouteForVid(vids["alice_db"], poisoned["alice_db"], Alice, <<Bob>>).res
           = Err("InvalidRoute")
    /\ SetRouteForVid(vids["alice_db"], poisoned["alice_db"], Alice, <<Bob>>)
           .vids[Alice].tunnel = <<Bob, Alice, RealBob>>

---------------------------------------------------------------------------
(* The receive channel *)

(* C17: Once the caller has dropped the receive channel returned by        *)
(* receive(vid), the background decode task stops: no frame that arrives   *)
(* afterwards (the frame of a call made after the drop) is opened and none *)
(* changes the store's relationship state.                                 *)
C17_DropStopsTask ==
    \A db \in Stores : \A n \in 1..Len(sealed) :
        ( rx[db].dropped /\ n > rx[db].at ) =>
            /\ ~Took(db, n)
            /\ Took(db, n) => turn[db].after = turn[db].before

\* What the task returns for an item of the stream that it has not taken yet
Expected(db, item) ==
    IF item.ok THEN OpenMessage(vids[db], poisoned[db], item.bytes).res ELSE item

\* The results that are on their way to the caller of db, oldest first: those
\* the caller took, those the channel holds, and the one a blocked task holds
Line(db) ==
    got[db] \o chan[db] \o (IF task[db] = "blocked" THEN <<turn[db].result>> ELSE <<>>)

\* Line(db), followed by the results of the items that wait in the stream
Arrivals(db) == Line(db) \o [i \in 1..Len(inbox[db]) |-> Expected(db, inbox[db][i])]

(* C18: The per-subscription receive channel is a bounded lossless FIFO.   *)
(* It never holds more than 16 pending results; while the caller keeps the *)
(* channel, the results the caller took, those in the channel and the one  *)
(* a waiting task holds are, in this order and with none missing, the      *)
(* results of the items the task has taken, in the order the items arrived *)
(* (the k-th arrival is in the k-th place); and a task waiting on the full *)
(* channel holds the result of its last turn and opens nothing further.    *)
C18_BoundedFifo ==
    \A db \in Stores :
        /\ Len(chan[db]) <= ChannelCapacity
        /\ ~rx[db].dropped =>
              /\ Len(Arrivals(db))
                   = Cardinality({n \in 1..Len(sealed) :
                                     Endpoint(sealed[n].bytes.receiver) = db})
                     + (IF db = "bob_db" THEN attacks ELSE 0)
              /\ \A k \in 1..Len(Arrivals(db)) :
                    \/ Arrivals(db)[k] = StreamFailure(k)
                    \/ /\ Arrivals(db)[k].ok
                       /\ \E n \in 1..Len(sealed) :
                             Arrivals(db)[k]
                               = Expected(db, Frame(sealed[n].bytes))

\* The channel is full for the second time: the caller has taken a result,
\* the channel holds 16, the task waits with one more, and an item is left
\* in the stream, unopened; the message is among the results in the channel
C18_Witness ==
    /\ Len(got["bob_db"]) = 1
    /\ Len(chan["bob_db"]) = ChannelCapacity
    /\ task["bob_db"] = "blocked"
    /\ inbox["bob_db"] # <<>>
    /\ \E k \in 1..ChannelCapacity : chan["bob_db"][k].ok

---------------------------------------------------------------------------
(* Send transform selection and the checks of open_message *)

\* The envelope `bytes`, bound for `endpoint`, is what the mode that the
\* context `ctx` of `receiver` calls for produces
ModeFits(ctx, receiver, mode, endpoint, bytes) ==
    IF ctx.tunnel # <<>>
    THEN /\ mode = "routed"
         /\ bytes.ciphertext.payload.kind = "RoutedMessage"
         /\ bytes.receiver = ctx.tunnel[1]
         /\ endpoint = Endpoint(ctx.tunnel[1])
    ELSE IF ctx.parent_vid # None
    THEN /\ mode = "nested"
         /\ bytes.ciphertext.payload.kind = "NestedMessage"
         /\ bytes.receiver = ctx.parent_vid
         /\ endpoint = Endpoint(ctx.parent_vid)
    ELSE /\ mode = "direct"
         /\ bytes.ciphertext.payload.kind = "Content"
         /\ bytes.receiver = receiver
         /\ endpoint = Endpoint(receiver)

(* C19: seal_message chooses the send mode from the receiver's context in  *)
(* strict priority: routed when tunnel is set (even if parent_vid is also  *)
(* set), otherwise nested when parent_vid is set, otherwise direct; the    *)
(* returned endpoint is tunnel[0]'s endpoint, the endpoint of the          *)
(* receiver's parent, or the receiver's own endpoint respectively.         *)
C19_ModePriority ==
    /\ \A db \in Stores : \A sender, receiver \in DOMAIN vids[db] :
          \A nc \in NonConfidential, message \in Messages :
              LET m == SealMessage(vids[db], poisoned[db], sender, receiver, nc, message,
                                   nonce + 1)
              IN m.ok => ModeFits(vids[db][receiver], receiver, m.mode, m.endpoint,
                                  m.bytes)
    /\ \A n \in Calls("send") :
          ModeFits(ReceiverContext(n), sealed[n].receiver, sealed[n].mode,
                   Endpoint(sealed[n].bytes.receiver), sealed[n].bytes)

\* A message went out routed to a receiver that has a tunnel and a parent,
\* and the store still seals nested for one with a parent only and direct
\* for one with neither
C19_Witness ==
    \E n \in Calls("send") :
        /\ sealed[n].receiver = BobNested
        /\ ReceiverContext(n).tunnel # <<>>
        /\ ReceiverContext(n).parent_vid = Bob
        /\ sealed[n].mode = "routed"
        /\ sealed[n].bytes.ciphertext.payload.kind = "RoutedMessage"
        /\ vids["alice_db"][Bob].tunnel = <<>>
        /\ SealMessage(vids["alice_db"], FALSE, Alice, Bob, None, "hello world", nonce + 1)
              .mode = "direct"

\* The last item db's task took is a well-framed encrypted envelope
TookEncrypted(db) ==
    /\ turn[db].taken
    /\ turn[db].message.ok
    /\ Probe(turn[db].message.bytes).ok
    /\ turn[db].message.bytes.ciphertext.present

IsUnverifiedVid(r) == ~r.ok /\ r.err = "UnverifiedVid"

(* C21: An inbound RoutedMessage whose first remaining hop hops[0] is not  *)
(* a VID known to the receiving store makes open_message return            *)
(* UnverifiedVid(hops[0]) instead of a ForwardRequest, with the store left *)
(* as it was, and the subscription continues with the next frame: the task *)
(* does not end, and the error is an item of the channel like any other.   *)
C21_UnknownHop ==
    \A db \in Stores :
        /\ ( /\ Delivered(db, "RoutedMessage")
             /\ Inbound(db).payload.hops # <<>>
             /\ Inbound(db).payload.hops[1] \notin DOMAIN turn[db].before )
           => /\ turn[db].result = ErrVid("UnverifiedVid", Inbound(db).payload.hops[1])
              /\ ~turn[db].panicked
              /\ turn[db].after = turn[db].before
              /\ task[db] = "running"
              /\ chan[db][Len(chan[db])] = turn[db].result
        /\ ( \E i \in 1..Len(chan[db]) : IsUnverifiedVid(chan[db][i]) )
           => task[db] = "running"

\* Bob's channel holds UnverifiedVid(realbob) for a message routed by way of
\* [bob, realbob], and after it the message of a later frame
C21_Witness ==
    \E i \in 1..Len(chan["bob_db"]) :
        /\ chan["bob_db"][i] = ErrVid("UnverifiedVid", RealBob)
        /\ i < Len(chan["bob_db"])
        /\ chan["bob_db"][i + 1].ok
        /\ chan["bob_db"][i + 1].kind = "GenericMessage"
        /\ \E n \in SentIn("routed") : TunnelOf(n) = <<Bob, RealBob>>


---------------------------------------------------------------------------
(* The operations of a VidDatabase step by step: two tasks that decode the *)
(* same frame, a send_relationship_cancel and a verify_vid, each taking    *)
(* and releasing the write locks of the maps as the code does              *)

Openers == {"open1", "open2"}

\* What the database holds about the peer before the tasks start, and the
\* relationship frames that arrive from the peer
LockDigests == {1, 2}
LockStatuses ==
    {Unrelated} \cup {Unidirectional(d) : d \in LockDigests}
                \cup {Bidirectional(d) : d \in LockDigests}
LockPayloads ==
    {AcceptRelationship(t) : t \in LockDigests}
        \cup {CancelRelationship(t) : t \in LockDigests}

\* The result of an operation that has not returned
Pending == [returned |-> FALSE]

\* A task about to decode a frame of `sender` with `payload`; `initially` is
\* the status of the sender when the frame arrived
Opening(sender, payload, initially) ==
    [pc |-> "start", sender |-> sender, payload |-> payload,
     initially |-> initially, res |-> Pending]

\* alice's database knows bob in some status; both tasks have the same frame
InitLocks ==
    \E status \in LockStatuses, payload \in LockPayloads :
        /\ vids = [db \in Stores |->
                     [id \in {Alice, Bob} |->
                        IF db = "alice_db" /\ id = Bob
                        THEN [NewContext(FALSE) EXCEPT !.relation_status = status]
                        ELSE NewContext(id = OwnerOf[db])]]
        /\ poisoned = [db \in Stores |-> FALSE]
        /\ inbox = [db \in Stores |-> <<>>]
        /\ chan = [db \in Stores |-> <<>>]
        /\ task = [db \in Stores |-> "running"]
        /\ pend = [db \in Stores |-> Idle]
        /\ nonce = Cardinality(LockDigests)
        /\ sealed = <<>>
        /\ attacks = 0
        /\ cancelled = [db \in Stores |-> {}]
        /\ turn = [db \in Stores |-> NoTurn]
        /\ rx = [db \in Stores |-> Held]
        /\ got = [db \in Stores |-> <<>>]
        /\ lock = Unlocked
        /\ proc = [q \in Processes |->
                     IF q \in Openers THEN Opening(Bob, payload, status)
                     ELSE [pc |-> "start", res |-> Pending]]
        /\ tx = NoBroadcast
        /\ ws = NoSocket
        /\ walk = NoWalk

Acquire(db, l, q) == lock' = [lock EXCEPT ![db][l] = q]
Release(db, l) == lock' = [lock EXCEPT ![db][l] = None]
Finish(q, r) == proc' = [proc EXCEPT ![q].pc = "done", ![q].res = r]
Goto(q, pc) == proc' = [proc EXCEPT ![q].pc = pc]

\* decode_message: verified_vids.read().await.get(sender); the read waits
\* while a writer holds the map
OpenLookup(db, q) ==
    /\ proc[q].pc = "start"
    /\ lock[db]["verified_vids"] = None
    /\ IF proc[q].sender \in DOMAIN vids[db]
       THEN Goto(q, "opened")
       ELSE Finish(q, ErrVid("UnverifiedVid", proc[q].sender))
    /\ UNCHANGED <<vids, poisoned, inbox, chan, task, pend, nonce, sealed, attacks,
                   cancelled, turn, rx, got, lock, tx, ws, walk>>

\* A relation_status.write() that does not wait for the holder of the lock
OpenAcquireUnguarded(db, q) ==
    /\ proc[q].pc = "opened"
    /\ Acquire(db, "relation_status", q)
    /\ Goto(q, "locked")
    /\ UNCHANGED <<vids, poisoned, inbox, chan, task, pend, nonce, sealed, attacks,
                   cancelled, turn, rx, got, tx, ws, walk>>

\* decode_message, AcceptRelationship and CancelRelationship:
\* let mut status = relation_status.write().await
OpenAcquire(db, q) ==
    /\ proc[q].pc = "opened"
    /\ lock[db]["relation_status"] = None
    /\ Acquire(db, "relation_status", q)
    /\ Goto(q, "locked")
    /\ UNCHANGED <<vids, poisoned, inbox, chan, task, pend, nonce, sealed, attacks,
                   cancelled, turn, rx, got, tx, ws, walk>>

\* What a return does to the lock: the guard of the task is dropped (a task
\* that never waited for the lock may find another's guard in its place)
DropGuard(db, q) ==
    IF lock[db]["relation_status"] = q THEN Release(db, "relation_status")
    ELSE UNCHANGED lock

\* The checks under the guard: an early return drops it
OpenCheck(db, q) ==
    /\ proc[q].pc = "locked"
    /\ LET sender == proc[q].sender
           thread_id == proc[q].payload.thread_id
           relation == vids[db][sender].relation_status
       IN IF proc[q].payload.kind = "AcceptRelationship"
          THEN IF \/ relation.kind # "Unidirectional"
                  \/ thread_id # relation.digest
               THEN Finish(q, Err("Relationship")) /\ DropGuard(db, q)
               ELSE Goto(q, "checked") /\ UNCHANGED lock
          ELSE IF relation.kind \in {"Bidirectional", "Unidirectional"}
               THEN IF thread_id # relation.digest
                    THEN Finish(q, Err("Relationship")) /\ DropGuard(db, q)
                    ELSE Goto(q, "checked") /\ UNCHANGED lock
               ELSE Finish(q, [ok |-> FALSE, err |-> "panic"]) /\ DropGuard(db, q)
    /\ UNCHANGED <<vids, poisoned, inbox, chan, task, pend, nonce, sealed, attacks,
                   cancelled, turn, rx, got, tx, ws, walk>>

\* *relation = Bidirectional(*digest), or Unrelated for a cancel; the guard
\* is dropped at the return
OpenPromote(db, q) ==
    /\ proc[q].pc = "checked"
    /\ LET sender == proc[q].sender
           relation == vids[db][sender].relation_status
       IN IF proc[q].payload.kind = "AcceptRelationship"
          THEN /\ vids' = [vids EXCEPT ![db][sender].relation_status =
                                           Bidirectional(proc[q].payload.thread_id)]
               /\ Finish(q, ReceivedAccept(sender))
          ELSE /\ vids' = [vids EXCEPT ![db][sender].relation_status = Unrelated]
               /\ Finish(q, ReceivedCancel(sender))
    /\ DropGuard(db, q)
    /\ UNCHANGED <<poisoned, inbox, chan, task, pend, nonce, sealed, attacks,
                   cancelled, turn, rx, got, tx, ws, walk>>

\* VidDatabase::send_relationship_cancel up to its transport send: the
\* lookups, let mut status = relation_status.write().await, the insert of
\* Unrelated, the seal; the task then waits in send_message with `status`
\* alive
CancelBegin(db, q, sender, receiver) ==
    /\ proc[q].pc = "start"
    /\ lock[db]["verified_vids"] = None
    /\ lock[db]["relation_status"] = None
    /\ nonce < MaxSeal
    /\ LET s == GetPrivateVid(vids[db], FALSE, sender)
           r == GetVerifiedVid(vids[db], FALSE, receiver)
           tsp_message == Seal(sender, receiver, None,
                               CancelRelationship(DefaultDigest), nonce + 1)
       IN IF ~s.ok THEN Finish(q, s) /\ UNCHANGED <<vids, lock, nonce, sealed>>
          ELSE IF ~r.ok THEN Finish(q, r) /\ UNCHANGED <<vids, lock, nonce, sealed>>
          ELSE /\ Acquire(db, "relation_status", q)
               /\ vids' = [vids EXCEPT ![db][receiver].relation_status = Unrelated]
               /\ nonce' = nonce + 1
               /\ sealed' = Append(sealed,
                                   Call("send_relationship_cancel", "direct", sender,
                                        receiver, None, "", DefaultDigest,
                                        tsp_message))
               /\ Goto(q, "sending")
    /\ UNCHANGED <<poisoned, inbox, chan, task, pend, attacks, cancelled, turn, rx,
                   got, tx, ws, walk>>

\* The transport send completes, well or not; `status` is dropped at the
\* return
CancelFinish(db, q) ==
    /\ proc[q].pc = "sending"
    /\ \E transport_ok \in BOOLEAN :
          IF transport_ok
          THEN /\ TransportSend(Endpoint(sealed[Len(sealed)].receiver),
                                sealed[Len(sealed)].bytes)
               /\ Finish(q, [ok |-> TRUE])
          ELSE /\ UNCHANGED inbox
               /\ Finish(q, TransportFailure)
    /\ Release(db, "relation_status")
    /\ UNCHANGED <<vids, poisoned, chan, task, pend, nonce, sealed, attacks, cancelled,
                   turn, rx, got, tx, ws, walk>>

\* VidDatabase::verify_vid up to its resolver request:
\* let mut verified_vids = self.verified_vids.write().await; the task then
\* waits in tsp_vid::verify_vid with the guard alive
VerifyBegin(db, q) ==
    /\ proc[q].pc = "start"
    /\ lock[db]["verified_vids"] = None
    /\ Acquire(db, "verified_vids", q)
    /\ Goto(q, "resolving")
    /\ UNCHANGED <<vids, poisoned, inbox, chan, task, pend, nonce, sealed, attacks,
                   cancelled, turn, rx, got, tx, ws, walk>>

\* The resolver answers, well or not: the insert, and the guard dropped
VerifyFinish(db, q, vid) ==
    /\ proc[q].pc = "resolving"
    /\ \E resolved \in BOOLEAN :
          IF resolved
          THEN /\ vids' = [vids EXCEPT ![db] =
                             [id \in DOMAIN @ \cup {vid} |->
                                IF id = vid THEN NewContext(FALSE) ELSE @[id]]]
               /\ Finish(q, [ok |-> TRUE])
          ELSE /\ UNCHANGED vids
               /\ Finish(q, Err("ResolveVid"))
    /\ Release(db, "verified_vids")
    /\ UNCHANGED <<poisoned, inbox, chan, task, pend, nonce, sealed, attacks,
                   cancelled, turn, rx, got, tx, ws, walk>>

NextLocks ==
    \/ \E q \in Openers : OpenLookup("alice_db", q)
    \/ \E q \in Openers : OpenAcquire("alice_db", q)
    \/ \E q \in Openers : OpenCheck("alice_db", q)
    \/ \E q \in Openers : OpenPromote("alice_db", q)
    \/ \E sender \in Senders("alice_db"), receiver \in Peers("alice_db") :
          CancelBegin("alice_db", "cancel", sender, receiver)
    \/ CancelFinish("alice_db", "cancel")
    \/ VerifyBegin("alice_db", "verify")
    \/ VerifyFinish("alice_db", "verify", RealBob)

SpecLocks == InitLocks /\ [][NextLocks]_vars

\* A task waits for the network: in its transport send or resolver request
Suspended(q) == proc[q].pc \in {"sending", "resolving"}
HoldsWriteLock(q) == \E db \in Stores, l \in LockNames : lock[db][l] = q
BothOpened == \A q \in Openers : proc[q].pc = "done"
Won(q) == proc[q].res = ReceivedAccept(proc[q].sender)

(* C22: The Accept check and promote are one critical section: when two    *)
(* tasks open the same AcceptRelationship frame with thread t for a sender *)
(* whose status is Unidirectional(t), exactly one returns                  *)
(* AcceptRelationship, the other a Relationship error, and the status ends *)
(* as Bidirectional(t); in no interleaving do both succeed, and the two    *)
(* are never both between the check and the promote.                       *)
C22_AtomicAccept ==
    /\ ~(\A q \in Openers : Won(q))
    /\ ~(\A q \in Openers : proc[q].pc \in {"locked", "checked"})
    /\ \A t \in LockDigests :
          ( /\ BothOpened
            /\ proc["cancel"].pc = "start"
            /\ \A q \in Openers : /\ proc[q].payload = AcceptRelationship(t)
                                  /\ proc[q].initially = Unidirectional(t) )
          => /\ \E q \in Openers :
                   /\ Won(q)
                   /\ \A o \in Openers \ {q} : proc[o].res = Err("Relationship")
             /\ vids["alice_db"][Bob].relation_status = Bidirectional(t)

C22_Witness ==
    /\ BothOpened
    /\ proc["cancel"].pc = "start"
    /\ proc["open1"].payload = AcceptRelationship(2)
    /\ proc["open1"].initially = Unidirectional(2)
    /\ proc["open1"].res = Err("Relationship")
    /\ Won("open2")
    /\ vids["alice_db"][Bob].relation_status = Bidirectional(2)

(* C23: No operation holds a write lock of the store (of the map of VIDs   *)
(* or of the map of relation statuses) while it waits in a transport send  *)
(* or a resolver request, so a task that opens a message never waits for   *)
(* a lock during network I/O.                                              *)
C23_NoLockAcrossAwait ==
    \A q \in Processes :
        Suspended(q)
        => /\ ~HoldsWriteLock(q)
           /\ \A o \in Openers :
                 /\ proc[o].pc = "start" => ENABLED OpenLookup("alice_db", o)
                 /\ proc[o].pc = "opened" => ENABLED OpenAcquire("alice_db", o)


\* The last turn of db's task took a CancelRelationship frame of a sender
\* with whom the store had a relationship
CancelOfRelated(db) ==
    /\ Delivered(db, "CancelRelationship")
    /\ StatusOf(turn[db].before, InboundSender(db)).kind
           \in {"Unidirectional", "Bidirectional"}

(* C24: An inbound CancelRelationship{thread_id} from a sender whose status *)
(* is Unidirectional(d) or Bidirectional(d): when d = thread_id the status  *)
(* becomes Unrelated and the result is CancelRelationship{sender}; when     *)
(* d # thread_id the result is a Relationship error and the store is as     *)
(* before.                                                                  *)
C24_InboundCancel ==
    \A db \in Stores :
        CancelOfRelated(db)
        => IF StatusOf(turn[db].before, InboundSender(db)).digest = InboundThread(db)
           THEN /\ turn[db].result = ReceivedCancel(InboundSender(db))
                /\ ~turn[db].panicked
                /\ turn[db].after =
                       [turn[db].before EXCEPT
                            ![InboundSender(db)].relation_status = Unrelated]
           ELSE /\ turn[db].result = Err("Relationship")
                /\ ~turn[db].panicked
                /\ turn[db].after = turn[db].before

C24_Witness ==
    /\ CancelOfRelated("bob_db")
    /\ StatusOf(turn["bob_db"].before, Alice) = Bidirectional(InboundThread("bob_db"))
    /\ StatusOf(vids["bob_db"], Alice) = Unrelated
    /\ turn["bob_db"].result = ReceivedCancel(Alice)


\* The call whose transport send succeeded and whose status insert is due
SendSucceeded(db) ==
    \E n \in Calls(pend[db].op) :
        /\ sealed[n].sender = OwnerOf[db]
        /\ sealed[n].receiver = pend[db].receiver
        /\ sealed[n].thread_id = pend[db].status.digest
        /\ \A k \in n + 1..Len(sealed) : sealed[k].sender # OwnerOf[db]

\* The caller may make the call: the store owns `sender` and knows `receiver`
MayCall(db, sender, receiver) ==
    /\ GetPrivateVid(vids[db], poisoned[db], sender).ok
    /\ GetVerifiedVid(vids[db], poisoned[db], receiver).ok

\* No frame is taken by db's task in this step
NoTurnOf(db) == inbox'[db] = inbox[db] \/ Len(inbox'[db]) > Len(inbox[db])

(* C25: send_relationship_request and send_relationship_accept leave every *)
(* status as it is up to and including their transport send, failed or     *)
(* not, and the status of the receiver is set only once the send has       *)
(* succeeded; send_relationship_cancel sets the status of the receiver to   *)
(* Unrelated whether its send succeeds or fails; a call of any of the three *)
(* with a sender the store does not own or a receiver it does not know      *)
(* changes no status; and no other step but a turn of the task changes a    *)
(* status.  (The insert after a successful send fails, and changes nothing, *)
(* when a panic of the task has poisoned the lock.)                         *)
C25_StatusAfterSend ==
    [][ \A db \in Stores :
          /\ \A sender \in Senders(db), receiver \in Peers(db) :
                /\ SendRelationshipRequest(db, sender, receiver) => vids' = vids
                /\ \A thread_id \in Digests :
                      SendRelationshipAccept(db, sender, receiver, thread_id)
                          => vids' = vids
                /\ SendRelationshipCancel(db, sender, receiver)
                      => IF MayCall(db, sender, receiver)
                         THEN vids' = [vids EXCEPT
                                         ![db][receiver].relation_status = Unrelated]
                         ELSE vids' = vids
          /\ Complete(db)
                => /\ SendSucceeded(db)
                   /\ vids' = IF poisoned[db] THEN vids
                              ELSE [vids EXCEPT
                                      ![db][pend[db].receiver].relation_status =
                                          pend[db].status]
          /\ ( vids'[db] # vids[db] /\ NoTurnOf(db) )
                => \/ Complete(db) /\ SendSucceeded(db)
                   \/ \E sender \in Senders(db), receiver \in Peers(db) :
                         /\ MayCall(db, sender, receiver)
                         /\ SendRelationshipCancel(db, sender, receiver)
      ]_vars

\* Alice's status for Bob went from Unidirectional to Unrelated by a cancel
\* whose send failed: no cancel was ever handed to the transport
C25_Witness ==
    /\ StatusOf(vids["alice_db"], Bob) = Unrelated
    /\ \E e \in cancelled["alice_db"] : e[1] = Bob /\ e[2].kind = "Unidirectional"
    /\ Calls("send_relationship_cancel") = {}
    /\ WeRequested("alice_db", Bob, CHOOSE t \in Digests : t # DefaultDigest)


\* The identifiers whose status in the map v is Controlled
ControlledIn(v) == {id \in DOMAIN v : StatusOf(v, id) = Controlled}

(* C26: No inbound frame sets a relation status to Controlled: the store   *)
(* a turn of the receive task leaves behind has no Controlled status that   *)
(* the store before the turn did not have, whatever frame was taken, and no *)
(* store ever holds a Controlled status.                                    *)
C26_NeverControlled ==
    \A db \in Stores :
        /\ turn[db].taken => ControlledIn(turn[db].after) \subseteq
                                 ControlledIn(turn[db].before)
        /\ ControlledIn(vids[db]) = {}

\* Inbound frames of the handshake have been opened on both sides: Bob's
\* task took the request, Alice's task took Bob's accept and promoted
C26_Witness ==
    /\ Delivered("alice_db", "AcceptRelationship")
    /\ StatusOf(turn["alice_db"].before, Bob).kind = "Unidirectional"
    /\ StatusOf(turn["alice_db"].after, Bob).kind = "Bidirectional"
    /\ Delivered("bob_db", "RequestRelationship")
    /\ ControlledIn(turn["bob_db"].after) = {}


---------------------------------------------------------------------------
(* The stores as set_relation_for_vid, set_parent_for_vid and              *)
(* set_route_for_vid can leave them: relations, parents and tunnels that    *)
(* are missing, owned, verified only or unknown                            *)

\* Alice's store: the relation of the first hop bob, the relation, parent
\* and tunnel of the receiver nested_bob, the parent of nested_alice
AliceStore(hop_relation, relation, parent, tunnel, sender_parent) ==
    Alice :> Context(TRUE, Alice, None)
    @@ Bob :> Context(FALSE, hop_relation, None)
    @@ AliceNested :> Context(TRUE, BobNested, sender_parent)
    @@ BobNested :> [Context(FALSE, relation, parent) EXCEPT !.tunnel = tunnel]

\* Bob's store: the relation of its own VID (the drop-off VID of a final
\* delivery) and of alice (the next hop of an intermediary)
BobStore(own_relation, hop_relation) ==
    Bob :> Context(TRUE, own_relation, None)
    @@ Alice :> Context(FALSE, hop_relation, None)
    @@ BobNested :> Context(TRUE, None, Bob)
    @@ AliceNested :> Context(FALSE, None, None)

Tunnels == {<<Bob, Alice>>, <<Bob, Alice, Bob>>, <<RealBob, Bob>>}

\* The set-ups: those of a routed send, of a nested send, of a forward
Configurations ==
    {[alice_db |-> AliceStore(hr, r, Bob, t, Alice), bob_db |-> BobStore(Alice, Bob)] :
        hr \in {None, Alice, Bob, RealBob},
        r \in {None, AliceNested, Bob, RealBob},
        t \in Tunnels}
    \cup
    {[alice_db |-> AliceStore(Alice, r, pr, <<>>, sp), bob_db |-> BobStore(Alice, Bob)] :
        r \in {None, AliceNested, Bob, RealBob},
        pr \in {None, Bob, RealBob},
        sp \in {None, Alice, Bob, RealBob}}
    \cup
    {[alice_db |-> AliceStore(Alice, AliceNested, Bob, t, Alice),
      bob_db |-> BobStore(o, h)] :
        t \in Tunnels \ {<<RealBob, Bob>>},
        o \in {None, Alice, RealBob},
        h \in {None, Bob, Alice, RealBob}}

InitConfigured ==
    /\ vids \in Configurations
    /\ poisoned = [db \in Stores |-> FALSE]
    /\ inbox = [db \in Stores |-> <<>>]
    /\ chan = [db \in Stores |-> <<>>]
    /\ task = [db \in Stores |-> "running"]
    /\ pend = [db \in Stores |-> Idle]
    /\ nonce = 0
    /\ sealed = <<>>
    /\ attacks = 0
    /\ cancelled = [db \in Stores |-> {}]
    /\ turn = [db \in Stores |-> NoTurn]
    /\ rx = [db \in Stores |-> Held]
    /\ got = [db \in Stores |-> <<>>]
    /\ lock = Unlocked
    /\ proc = NoProcesses
    /\ tx = NoBroadcast
    /\ ws = NoSocket
    /\ walk = NoWalk

\* Alice's store sends to nested_bob by seal_message (the mode follows from
\* the context), send_nested and send_routed; the stores forward what they
\* receive
NextConfigured ==
    \/ \E message \in Messages :
          Send("alice_db", Alice, BobNested, "extra non-confidential data", message)
    \/ \E message \in Messages :
          SendNested("alice_db", BobNested, "extra non-confidential data", message)
    \/ \E message \in Messages :
          SendRouted("alice_db", BobNested, "extra non-confidential data", message)
    \/ \E db \in Stores : \E f \in ForwardInputs(db) :
          ForwardRoutedMessage(db, f.next_hop, f.path, f.opaque)
    \/ \E db \in Stores : ReceiveStep(db)

SpecConfigured == InitConfigured /\ [][NextConfigured]_vars

\* The two ways of a store to seal in routed mode, for a receiver with a
\* tunnel: seal_message from an owned sender, and send_routed
RoutedSeals(db, receiver, nc, message) ==
    {SealMessage(vids[db], poisoned[db], OwnerOf[db], receiver, nc, message, nonce + 1),
     RoutedEnvelope(vids[db], poisoned[db], receiver, nc, message, nonce + 1)}

Owned(db, id) == id \in DOMAIN vids[db] /\ vids[db][id].private
Known(db, id) == id \in DOMAIN vids[db]
RelationOf(db, id) == vids[db][id].relation_vid
ParentIn(db, id) == vids[db][id].parent_vid

\* The envelope r.bytes is a routed one for `receiver` by way of its tunnel
RoutedShape(db, receiver, nc, message, r) ==
    LET tunnel == vids[db][receiver].tunnel
        first_sender == RelationOf(db, tunnel[1])
        inner_sender == RelationOf(db, receiver)
        outer == CryptoOpen(tunnel[1], first_sender, r.bytes)
    IN /\ r.endpoint = Endpoint(tunnel[1])
       /\ r.bytes.sender = first_sender
       /\ r.bytes.receiver = tunnel[1]
       /\ r.bytes.nonconfidential = None
       /\ outer.ok
       /\ outer.payload.kind = "RoutedMessage"
       /\ outer.payload.hops = Tail(tunnel)
       /\ LET inner == CryptoOpen(receiver, inner_sender, outer.payload.inner)
          IN /\ outer.payload.inner.sender = inner_sender
             /\ outer.payload.inner.receiver = receiver
             /\ inner.ok
             /\ inner.nonconfidential_data = nc
             /\ inner.payload = Content(message)

(* C27: A routed send (the receiver has a tunnel [T0, ...], T0 known to    *)
(* the store) fails with a ResolveVid error and produces no bytes unless    *)
(* both the relation VID of T0 and that of the receiver are set, and fails  *)
(* unless both are VIDs the store owns; on success the outer envelope is    *)
(* sealed from T0's relation VID to T0, bound for T0's endpoint, carries    *)
(* RoutedMessage(tunnel[1..], inner) and no non-confidential data, and the  *)
(* inner envelope is sealed from the receiver's relation VID to the         *)
(* receiver with the caller's message and non-confidential data.            *)
C27_RoutedSend ==
    \A db \in Stores : \A receiver \in DOMAIN vids[db] :
        ( ~poisoned[db] /\ vids[db][receiver].tunnel # <<>> ) =>
            \A nc \in NonConfidential, message \in Messages :
                \A r \in RoutedSeals(db, receiver, nc, message) :
                    LET T0 == vids[db][receiver].tunnel[1]
                    IN /\ ~Known(db, T0) => ~r.ok
                       /\ ( /\ Known(db, T0)
                            /\ None \in {RelationOf(db, T0), RelationOf(db, receiver)} )
                          => r = Err("ResolveVid")
                       /\ ( /\ Known(db, T0)
                            /\ None \notin {RelationOf(db, T0), RelationOf(db, receiver)}
                            /\ ~( /\ Owned(db, RelationOf(db, T0))
                                  /\ Owned(db, RelationOf(db, receiver)) ) )
                          => ~r.ok
                       /\ ~r.ok => "bytes" \notin DOMAIN r
                       /\ r.ok => RoutedShape(db, receiver, nc, message, r)

\* Both failures have been possible and a routed envelope has been sent: in
\* a store where the first hop's relation is set and the receiver's is not
\* nothing was sent; in this one Bob's task has taken the envelope
C27_Witness ==
    /\ \E n \in SentIn("routed") :
          /\ sealed[n].op = "send"
          /\ Took("bob_db", n)
          /\ turn["bob_db"].result.ok
          /\ turn["bob_db"].result.kind = "ForwardRequest"
          /\ turn["bob_db"].result.route = <<Bob>>
    /\ Owned("alice_db", RelationOf("alice_db", Bob))
    /\ Owned("alice_db", RelationOf("alice_db", BobNested))


\* The envelope r.bytes is a nested one for `receiver`
NestedShape(db, receiver, nc, message, r) ==
    LET inner_sender == RelationOf(db, receiver)
        parent_sender == ParentIn(db, inner_sender)
        parent_receiver == ParentIn(db, receiver)
        outer == CryptoOpen(parent_receiver, parent_sender, r.bytes)
    IN /\ r.endpoint = Endpoint(parent_receiver)
       /\ r.bytes.sender = parent_sender
       /\ r.bytes.receiver = parent_receiver
       /\ r.bytes.nonconfidential = nc
       /\ outer.ok
       /\ outer.payload.kind = "NestedMessage"
       /\ LET inner == outer.payload.inner
          IN /\ ~inner.ciphertext.present
             /\ inner.sender = inner_sender
             /\ inner.receiver = receiver
             /\ CryptoVerify(inner_sender, inner).ok
             /\ CryptoVerify(inner_sender, inner).payload = AsBytes(Content(message))

\* The preconditions of a nested send to `receiver` that can fail after the
\* relation VID and its parent were found set
NestedResolves(db, receiver) ==
    /\ Owned(db, RelationOf(db, receiver))
    /\ Owned(db, ParentIn(db, RelationOf(db, receiver)))
    /\ Known(db, ParentIn(db, receiver))

(* C28: A nested send (the receiver has a parent and no tunnel) by          *)
(* seal_message fails with a ResolveVid error when the receiver has no      *)
(* relation VID or when the context of that relation VID has no parent; it  *)
(* fails when the relation VID or its parent is not owned or the receiver's *)
(* parent is unknown; on success the outer envelope is sealed from the      *)
(* parent of the relation VID to the parent of the receiver, bound for the  *)
(* endpoint of the latter, and carries NestedMessage(inner), the inner      *)
(* being a signed-only envelope of the message from the relation VID to the *)
(* receiver.  send_nested does the same (its error for a relation VID that  *)
(* is neither owned nor has a parent is that of the lookup).                *)
C28_NestedSend ==
    \A db \in Stores : \A receiver \in DOMAIN vids[db] :
        ( /\ ~poisoned[db]
          /\ vids[db][receiver].tunnel = <<>>
          /\ ParentIn(db, receiver) # None ) =>
            \A nc \in NonConfidential, message \in Messages :
                LET s == SealMessage(vids[db], poisoned[db], OwnerOf[db], receiver, nc,
                                     message, nonce + 1)
                    e == NestedEnvelope(vids[db], poisoned[db], receiver, nc, message,
                                        nonce + 1)
                    relation == RelationOf(db, receiver)
                IN /\ relation = None => s = Err("ResolveVid") /\ e = Err("ResolveVid")
                   /\ ( /\ relation # None
                        /\ Known(db, relation)
                        /\ ParentIn(db, relation) = None )
                      => /\ s = Err("ResolveVid")
                         /\ ~e.ok
                         /\ Owned(db, relation) => e = Err("ResolveVid")
                   /\ ( /\ relation # None
                        /\ ~Known(db, relation) )
                      => ~s.ok /\ ~e.ok
                   /\ ( /\ relation # None
                        /\ Known(db, relation)
                        /\ ParentIn(db, relation) # None
                        /\ ~NestedResolves(db, receiver) )
                      => ~s.ok /\ ~e.ok
                   /\ \A r \in {s, e} :
                         /\ ~r.ok => "bytes" \notin DOMAIN r
                         /\ r.ok => NestedShape(db, receiver, nc, message, r)
                   /\ ( /\ relation # None
                        /\ Known(db, relation)
                        /\ ParentIn(db, relation) # None
                        /\ NestedResolves(db, receiver) )
                      => s.ok /\ e.ok

\* A nested envelope of send_nested has reached Bob's task, which finds the
\* message of nested_alice in it
C28_Witness ==
    \E n \in SentIn("nested") :
        /\ sealed[n].op = "send_nested"
        /\ NestedResolves("alice_db", BobNested)
        /\ Took("bob_db", n)
        /\ turn["bob_db"].result.ok
        /\ turn["bob_db"].result.kind = "GenericMessage"
        /\ turn["bob_db"].result.sender = AliceNested


\* The opaque payloads a caller may pass to forward_routed_message: those it
\* has at hand and one of its own making; the remaining paths it may pass
ForwardOpaques(db) ==
    {f.opaque : f \in ForwardInputs(db)}
        \cup {Seal(Alice, Bob, None, Content("hello world"), DefaultDigest)}
ForwardPaths == {<<Alice>>, <<Bob>>, <<Alice, Bob>>, <<RealBob>>}

\* The store can make the final delivery at the drop-off VID `next_hop`
CanDeliver(db, next_hop) ==
    /\ Owned(db, next_hop)
    /\ RelationOf(db, next_hop) # None
    /\ Known(db, RelationOf(db, next_hop))

\* The store can pass a message on to `next_hop`
CanPassOn(db, next_hop) ==
    /\ Known(db, next_hop)
    /\ RelationOf(db, next_hop) # None
    /\ Owned(db, RelationOf(db, next_hop))

\* The step hands exactly the envelope `env` to the store at `endpoint`
Sends(endpoint, env) ==
    /\ endpoint \in Stores
    /\ inbox' = [inbox EXCEPT ![endpoint] = Append(@, Frame(env))]

(* C29: forward_routed_message with an empty remaining path succeeds only   *)
(* if next_hop is a VID the store owns whose relation VID is set and known  *)
(* to the store, and it does succeed then; the envelope it sends is sealed  *)
(* from next_hop to that relation VID, carries NestedMessage(opaque) and no *)
(* non-confidential data, and goes to the endpoint of the relation VID; in  *)
(* every other case the result is an error with no bytes and no step of the *)
(* call sends anything.                                                     *)
C29_FinalDelivery ==
    /\ [](\A db \in Stores : \A next_hop \in ModeIds : \A opaque \in ForwardOpaques(db) :
            LET r == ForwardSeal(vids[db], poisoned[db], next_hop, <<>>, opaque,
                                 ForwardNonce)
            IN ~poisoned[db] =>
                 /\ r.ok <=> CanDeliver(db, next_hop)
                 /\ ~r.ok => "bytes" \notin DOMAIN r
                 /\ r.ok =>
                      LET relation == RelationOf(db, next_hop)
                      IN /\ r.endpoint = Endpoint(relation)
                         /\ r.bytes.sender = next_hop
                         /\ r.bytes.receiver = relation
                         /\ r.bytes.nonconfidential = None
                         /\ CryptoOpen(relation, next_hop, r.bytes).ok
                         /\ CryptoOpen(relation, next_hop, r.bytes).payload
                                = NestedMessage(opaque))
    /\ [][ \A db \in Stores : \A f \in ForwardInputs(db) :
             ( /\ f.path = <<>>
               /\ ForwardRoutedMessage(db, f.next_hop, f.path, f.opaque) )
             => /\ CanDeliver(db, f.next_hop)
                /\ Sends(Endpoint(RelationOf(db, f.next_hop)),
                         Seal(f.next_hop, RelationOf(db, f.next_hop), None,
                              NestedMessage(f.opaque), ForwardNonce))
       ]_vars

\* Bob's store has made a final delivery at its own VID to alice, its
\* relation, and Alice's task has taken the envelope; the request as Bob
\* received it named alice, which Bob's store does not own, as the drop-off
C29_Witness ==
    \E k \in Forwarded :
        /\ sealed[k].mode = "final"
        /\ sealed[k].sender = Bob
        /\ sealed[k].receiver = Alice
        /\ Took("alice_db", k)
        /\ \E fr \in Forwardable("bob_db") :
              /\ fr.route = <<>>
              /\ ~CanDeliver("bob_db", fr.next_hop)
              /\ sealed[k].bytes.ciphertext.payload = NestedMessage(fr.opaque_payload)

(* C30: forward_routed_message with a non-empty remaining path succeeds     *)
(* only if next_hop is a VID known to the store whose relation VID is set   *)
(* and owned by the store, and it does succeed then; the envelope it sends  *)
(* is sealed from that owned VID to next_hop, carries RoutedMessage(path,   *)
(* opaque) with the path and the opaque payload as passed in and no         *)
(* non-confidential data, and goes to the endpoint of next_hop, so that the *)
(* store that takes it sees a VID of the forwarding store as the sender; in *)
(* every other case the result is an error with no bytes and no step of the *)
(* call sends anything.                                                     *)
C30_Intermediary ==
    /\ [](\A db \in Stores : \A next_hop \in ModeIds : \A path \in ForwardPaths :
            \A opaque \in ForwardOpaques(db) :
            LET r == ForwardSeal(vids[db], poisoned[db], next_hop, path, opaque,
                                 ForwardNonce)
            IN ~poisoned[db] =>
                 /\ r.ok <=> CanPassOn(db, next_hop)
                 /\ ~r.ok => "bytes" \notin DOMAIN r
                 /\ r.ok =>
                      LET relation == RelationOf(db, next_hop)
                      IN /\ r.endpoint = Endpoint(next_hop)
                         /\ r.bytes.sender = relation
                         /\ r.bytes.receiver = next_hop
                         /\ r.bytes.nonconfidential = None
                         /\ CryptoOpen(next_hop, relation, r.bytes).ok
                         /\ CryptoOpen(next_hop, relation, r.bytes).payload
                                = RoutedMessage(path, opaque))
    /\ [](\A db \in Stores : \A k \in Forwarded :
            ( sealed[k].mode = "hop" /\ Took(db, k) /\ turn[db].result.ok )
            => /\ turn[db].result.kind = "ForwardRequest"
               /\ turn[db].result.sender = sealed[k].sender
               /\ turn[db].result.opaque_payload
                      = sealed[k].bytes.ciphertext.payload.inner
               /\ \E other \in Stores \ {db} : Owned(other, turn[db].result.sender))
    /\ [][ \A db \in Stores : \A f \in ForwardInputs(db) :
             ( /\ f.path # <<>>
               /\ ForwardRoutedMessage(db, f.next_hop, f.path, f.opaque) )
             => /\ CanPassOn(db, f.next_hop)
                /\ Sends(Endpoint(f.next_hop),
                         Seal(RelationOf(db, f.next_hop), f.next_hop, None,
                              RoutedMessage(f.path, f.opaque), ForwardNonce))
       ]_vars

\* Bob's store has passed a routed message on to alice with the remaining
\* path [bob]; Alice's task has taken it and sees bob as the sender and the
\* opaque payload that Alice's store sealed for nested_bob
C30_Witness ==
    \E k \in Forwarded : \E n \in SentIn("routed") :
        /\ sealed[k].mode = "hop"
        /\ sealed[k].sender = Bob
        /\ Took("alice_db", k)
        /\ turn["alice_db"].result.ok
        /\ turn["alice_db"].result.sender = Bob
        /\ turn["alice_db"].result.next_hop = Bob
        /\ turn["alice_db"].result.route = <<>>
        /\ turn["alice_db"].result.opaque_payload = Opaque(n)


---------------------------------------------------------------------------
(* Signed-only frames: sign_anycast, signed frames that name a receiver,   *)
(* and frames altered on the way, handed to either store                   *)

\* Store::sign_anycast; the caller hands the bytes to the store at `to`
SignAnycast(db, sender, message, to) ==
    /\ Len(sealed) < MaxSeal
    /\ LET s == GetPrivateVid(vids[db], poisoned[db], sender)
           tsp_message == Sign(sender, None, AsBytes(Content(message)))
       IN IF ~s.ok THEN Returns(db, "sign_anycast", s)
          ELSE /\ TransportSend(to, tsp_message)
               /\ sealed' = Append(sealed,
                                   Call("sign_anycast", "signed", sender, None, None,
                                        message, DefaultDigest, tsp_message))
               /\ UNCHANGED <<vids, poisoned, chan, task, pend, nonce, attacks,
                              cancelled, turn, rx, got, lock, proc, tx, ws, walk>>

\* A signed-only frame that names its receiver (crypto::sign with
\* Some(receiver), as the inner envelope of nested mode), with the byte of
\* part k altered or, for k = 0, as signed; handed to the store at `to`
SignedSend(db, sender, receiver, message, to, k, id) ==
    /\ Len(sealed) < MaxSeal
    /\ attacks < MaxAttack
    /\ GetPrivateVid(vids[db], poisoned[db], sender).ok
    /\ LET tsp_message == Sign(sender, receiver, AsBytes(Content(message)))
           sent == IF k = 0 THEN tsp_message
                   ELSE Flip(tsp_message, Layout(tsp_message)[k], id)
       IN /\ k \in 0..Len(Layout(tsp_message))
          /\ k = 0 => id = sender
          /\ k # 0 => /\ Layout(tsp_message)[k] = "sender" => id # sender
                      /\ Layout(tsp_message)[k] = "receiver" => id # receiver
                      /\ Layout(tsp_message)[k] \notin {"sender", "receiver"}
                            => id = sender
          /\ TransportSend(to, sent)
          /\ sealed' = Append(sealed,
                              Call("signed_send", "signed", sender, receiver, None,
                                   message, DefaultDigest, tsp_message))
    /\ attacks' = attacks + 1
    /\ UNCHANGED <<vids, poisoned, chan, task, pend, nonce, cancelled, turn, rx, got,
                   lock, proc, tx, ws, walk>>

NextSigned ==
    \/ \E db \in Stores, to \in Stores : \E sender \in Senders(db), message \in Messages :
          SignAnycast(db, sender, message, to)
    \/ \E db \in Stores, to \in Stores : \E receiver \in Ids, message \in Messages,
          k \in 0..5, id \in Ids :
          SignedSend(db, OwnerOf[db], receiver, message, to, k, id)
    \/ \E db \in Stores : ReceiveStep(db)

SpecSigned == Init /\ [][NextSigned]_vars

\* The last item db's task took is a well-framed signed-only envelope
TookSigned(db) ==
    /\ turn[db].taken
    /\ turn[db].message.ok
    /\ Probe(turn[db].message.bytes).ok
    /\ ~turn[db].message.bytes.ciphertext.present

(* C31: For an inbound signed-only frame, open_message returns              *)
(* UnexpectedRecipient when the frame names a receiver that is not an owned *)
(* VID of the store; otherwise UnverifiedVid(sender) when the sender is not *)
(* in the store; otherwise, when the signature verifies, GenericMessage     *)
(* with the sender, no non-confidential data, the verified bytes as the     *)
(* message and the type Signed.  The store is left as it was.               *)
C31_SignedFrame ==
    \A db \in Stores :
        TookSigned(db) =>
            LET env == turn[db].message.bytes
                v == turn[db].before
                addressed == env.receiver = None \/ HasPrivateVid(v, FALSE, env.receiver)
            IN /\ ~addressed => turn[db].result = Err("UnexpectedRecipient")
               /\ ( addressed /\ env.sender \notin DOMAIN v )
                  => turn[db].result = ErrVid("UnverifiedVid", env.sender)
               /\ ( addressed /\ env.sender \in DOMAIN v /\ CryptoVerify(env.sender, env).ok )
                  => turn[db].result =
                         GenericMessage(env.sender, None, env.nonconfidential, "Signed")
               /\ ( addressed /\ env.sender \in DOMAIN v /\ ~CryptoVerify(env.sender, env).ok )
                  => ~turn[db].result.ok
               /\ turn[db].after = v
               /\ ~turn[db].panicked

\* Bob's task has taken Alice's anycast frame and yields her message; a
\* signed frame that names bob has been misdelivered to Alice's store
C31_Witness ==
    /\ TookSigned("bob_db")
    /\ turn["bob_db"].message.bytes.receiver = None
    /\ turn["bob_db"].result =
           GenericMessage(Alice, None, AsBytes(Content("hello world")), "Signed")
    /\ TookSigned("alice_db")
    /\ turn["alice_db"].message.bytes.receiver = Bob
    /\ turn["alice_db"].result = Err("UnexpectedRecipient")


---------------------------------------------------------------------------
(* The demo server's WebSocket connection: a subscription to the broadcast *)
(* channel and two spawned tasks, one forwarding from the channel to the   *)
(* socket, one reading the socket; a peer connection publishes as well     *)

\* broadcast::channel(100)
BroadcastCapacity == 100

SocketUnchanged ==
    UNCHANGED <<vids, poisoned, inbox, chan, task, pend, nonce, sealed, attacks,
                cancelled, turn, rx, got, lock, proc, walk>>

\* websocket(): state.tx.subscribe() and the two tokio::spawn calls; the
\* subscription starts at the channel's tail
InitSocket ==
    /\ vids = [db \in Stores |->
                 [id \in {Alice, Bob} |-> NewContext(id = OwnerOf[db])]]
    /\ poisoned = [db \in Stores |-> FALSE]
    /\ inbox = [db \in Stores |-> <<>>]
    /\ chan = [db \in Stores |-> <<>>]
    /\ task = [db \in Stores |-> "running"]
    /\ pend = [db \in Stores |-> Idle]
    /\ nonce = 0
    /\ sealed = <<>>
    /\ attacks = 0
    /\ cancelled = [db \in Stores |-> {}]
    /\ turn = [db \in Stores |-> NoTurn]
    /\ rx = [db \in Stores |-> Held]
    /\ got = [db \in Stores |-> <<>>]
    /\ lock = Unlocked
    /\ proc = NoProcesses
    /\ tx = NoBroadcast
    /\ ws = [rx |-> 0, send_task |-> "recv", recv_task |-> "running",
             receivers |-> FALSE, lagged |-> FALSE, selected |-> FALSE]
    /\ walk = NoWalk

\* recv_task of a connection: an EncodedMessage arrives on its socket and is
\* sent into the channel (state.tx.send); own: the connection is this one
Publish(own) ==
    /\ tx.tail < MaxBroadcast
    /\ own => ws.recv_task = "running"
    /\ tx' = [tx EXCEPT !.tail = @ + 1]
    /\ UNCHANGED ws
    /\ SocketUnchanged

\* recv_task: a PrivateVid arrives on the socket and is inserted in receivers
Register ==
    /\ ws.recv_task = "running"
    /\ ws' = [ws EXCEPT !.receivers = TRUE]
    /\ UNCHANGED tx
    /\ SocketUnchanged

\* recv_task: receiver.next() yields None, an error or a frame that is not
\* text: the while let loop ends and the task completes
RecvTaskEnds ==
    /\ ws.recv_task = "running"
    /\ ws' = [ws EXCEPT !.recv_task = "done"]
    /\ UNCHANGED tx
    /\ SocketUnchanged

\* send_task: rx.recv().await returns.  Behind by more than the capacity it
\* returns Err(Lagged) and moves the subscription to the oldest retained
\* value: `while let Ok(..)` ends the loop and the task completes.  Otherwise
\* it returns the next value, which is skipped (continue) when its receiver is
\* not in receivers or it does not decode, and is forwarded otherwise.
SendTaskRecv(decoded) ==
    /\ ws.send_task = "recv"
    /\ ws.rx < tx.tail
    /\ IF tx.tail - ws.rx > BroadcastCapacity
       THEN ws' = [ws EXCEPT !.rx = tx.tail - BroadcastCapacity, !.lagged = TRUE,
                             !.send_task = "done"]
       ELSE ws' = [ws EXCEPT !.rx = @ + 1,
                             !.send_task = IF ws.receivers /\ decoded
                                           THEN "forward" ELSE "recv"]
    /\ UNCHANGED tx
    /\ SocketUnchanged

\* send_task: sender.send(Message::Text(..)).await returns; an error breaks
\* the loop
SendTaskForward(ok) ==
    /\ ws.send_task = "forward"
    /\ ws' = [ws EXCEPT !.send_task = IF ok THEN "recv" ELSE "done"]
    /\ UNCHANGED tx
    /\ SocketUnchanged

Running(t) == t \in {"recv", "forward", "running"}
Aborted(t) == IF Running(t) THEN "aborted" ELSE t

\* A select! that lets the other task run on
SelectDetached ==
    /\ ~ws.selected
    /\ ws.send_task = "done" \/ ws.recv_task = "done"
    /\ ws' = [ws EXCEPT !.selected = TRUE]
    /\ UNCHANGED tx
    /\ SocketUnchanged

\* tokio::select!: the branch of a completed task runs and aborts the other
\* task; websocket() returns
Select ==
    /\ ~ws.selected
    /\ ws.send_task = "done" \/ ws.recv_task = "done"
    /\ ws' = IF ws.send_task = "done"
             THEN [ws EXCEPT !.selected = TRUE, !.recv_task = Aborted(@)]
             ELSE [ws EXCEPT !.selected = TRUE, !.send_task = Aborted(@)]
    /\ UNCHANGED tx
    /\ SocketUnchanged

NextSocket ==
    \/ \E own \in BOOLEAN : Publish(own)
    \/ Register
    \/ RecvTaskEnds
    \/ \E decoded \in BOOLEAN : SendTaskRecv(decoded)
    \/ \E ok \in BOOLEAN : SendTaskForward(ok)
    \/ Select

\* The runtime polls websocket()'s select! once a task it waits for has
\* completed
SpecSocket == InitSocket /\ [][NextSocket]_vars /\ WF_vars(Select)

\* The subscription is still being served
Subscribed == ws.send_task \in {"recv", "forward"}

(* C32: A WebSocket subscriber that has fallen more than 100 values behind *)
(* on the broadcast channel loses the oldest values only: it is still      *)
(* subscribed (its forwarding loop goes on with the values retained).      *)
C32_LaggedStaysSubscribed == ws.lagged => Subscribed

(* C33: When the send task or the receive task of a WebSocket connection   *)
(* completes, the select aborts the other one, and from then on neither    *)
(* runs: a completed task leads to a state in which neither task runs, the *)
(* step of the select leaves none running, and none starts again.          *)
C33_PartnerAborted ==
    /\ (ws.send_task = "done" \/ ws.recv_task = "done")
          ~> (~Running(ws.send_task) /\ ~Running(ws.recv_task))
    /\ [][ /\ (~ws.selected /\ ws'.selected)
              => /\ ~Running(ws'.send_task) /\ ~Running(ws'.recv_task)
                 /\ "aborted" \in {ws'.send_task, ws'.recv_task}
                       <=> (Running(ws.send_task) \/ Running(ws.recv_task))
           /\ ws.selected => ws' = ws ]_vars

\* The send task ended on a failed socket write while the receive task was
\* still reading, and the select has aborted the receive task
C33_Witness ==
    /\ ws.selected
    /\ ws.send_task = "done"
    /\ ~ws.lagged
    /\ ws.recv_task = "aborted"


---------------------------------------------------------------------------
\* db's task took an AcceptRelationship whose thread_id is that of the last
\* call db made, a send_relationship_request to the frame's sender whose
\* transport send succeeded and which the sender's task has taken, and db
\* had no Bidirectional status for the sender yet
AcceptOfOwnRequest(db) ==
    /\ Delivered(db, "AcceptRelationship")
    /\ ~poisoned[db]
    /\ StatusOf(turn[db].before, InboundSender(db)).kind # "Bidirectional"
    /\ \E n \in Calls("send_relationship_request") :
          /\ sealed[n].sender = OwnerOf[db]
          /\ sealed[n].receiver = InboundSender(db)
          /\ sealed[n].thread_id = InboundThread(db)
          /\ \A k \in n + 1..Len(sealed) : sealed[k].sender # OwnerOf[db]
          /\ \A i \in 1..Len(inbox[Endpoint(InboundSender(db))]) :
                inbox[Endpoint(InboundSender(db))][i] # Frame(sealed[n].bytes)

(* C34: However send_relationship_request(A, B) interleaves with A's       *)
(* receive task, an AcceptRelationship from B that carries the thread_id t *)
(* of the request is accepted: the task yields AcceptRelationship{B} and   *)
(* A's status for B is Bidirectional(t) afterwards.                        *)
C34_AcceptNeverEarly ==
    \A db \in Stores :
        AcceptOfOwnRequest(db)
        => /\ turn[db].result = ReceivedAccept(InboundSender(db))
           /\ StatusOf(turn[db].after, InboundSender(db))
                  = Bidirectional(InboundThread(db))


---------------------------------------------------------------------------
(* C35: No inbound frame makes the store unusable: whatever frames the     *)
(* task has opened, get_vid, seal_message, set_route_for_vid and           *)
(* open_message on the store do not fail with Error::Internal (the error   *)
(* of a poisoned lock), and no turn of the task yields it.                 *)
C35_NeverInternal ==
    \A db \in Stores :
        /\ \A id \in Ids :
              /\ GetVid(vids[db], poisoned[db], id) # Err("Internal")
              /\ SetRouteForVid(vids[db], poisoned[db], id, <<Bob, Alice>>).res
                     # Err("Internal")
              /\ SealMessage(vids[db], poisoned[db], OwnerOf[db], id, None,
                             "hello world", MaxSeal + 1) # Err("Internal")
        /\ \A i \in 1..Len(inbox[db]) :
              inbox[db][i].ok
              => OpenMessage(vids[db], poisoned[db], inbox[db][i].bytes).res
                     # Err("Internal")
        /\ turn[db].taken => turn[db].result # Err("Internal")


---------------------------------------------------------------------------
(* Adding a VID to a store that already has an entry for its identifier    *)

\* Store::add_verified_vid: insert replaces the entry of the identifier
AddVerifiedVid(v, p, id) ==
    IF p THEN Returned(Err("Internal"), v)
    ELSE Returned([ok |-> TRUE],
                  [x \in DOMAIN v \cup {id} |-> IF x = id THEN NewContext(FALSE) ELSE v[x]])

\* Store::add_private_vid: insert replaces the entry of the identifier
AddPrivateVid(v, p, id) ==
    IF p THEN Returned(Err("Internal"), v)
    ELSE Returned([ok |-> TRUE],
                  [x \in DOMAIN v \cup {id} |-> IF x = id THEN NewContext(TRUE) ELSE v[x]])

CallAddVerifiedVid(db, id) ==
    /\ vids' = [vids EXCEPT ![db] = AddVerifiedVid(vids[db], poisoned[db], id).vids]
    /\ UNCHANGED <<poisoned, inbox, chan, task, pend, nonce, sealed, attacks, cancelled,
                   turn, rx, got, lock, proc, tx, ws, walk>>

CallAddPrivateVid(db, id) ==
    /\ vids' = [vids EXCEPT ![db] = AddPrivateVid(vids[db], poisoned[db], id).vids]
    /\ UNCHANGED <<poisoned, inbox, chan, task, pend, nonce, sealed, attacks, cancelled,
                   turn, rx, got, lock, proc, tx, ws, walk>>

\* Stores configured with relations, parents and routes, in which the VIDs
\* of Alice and Bob are added (again) and Alice requests a relationship
NextAdd ==
    \/ \E db \in Stores, id \in {Alice, Bob} : CallAddVerifiedVid(db, id)
    \/ \E db \in Stores, id \in {Alice, Bob} : CallAddPrivateVid(db, id)
    \/ SendRelationshipRequest("alice_db", Alice, Bob)
    \/ Complete("alice_db")

SpecAdd == InitConfigured /\ [][NextAdd]_vars

\* The entry of id has the relationship state of c
SameRelationState(c, d) ==
    /\ d.relation_status = c.relation_status
    /\ d.relation_vid = c.relation_vid
    /\ d.parent_vid = c.parent_vid
    /\ d.tunnel = c.tunnel

(* C36: Adding a VID whose identifier is already in the store loses no     *)
(* state: add_verified_vid for an identifier the store owns leaves         *)
(* has_private_vid true, and add_verified_vid and add_private_vid for an   *)
(* identifier of the store leave the entry's relation_status, relation_vid,*)
(* parent_vid and tunnel as they were.                                     *)
C36_AddKeepsState ==
    \A db \in Stores : \A id \in DOMAIN vids[db] :
        LET verified == AddVerifiedVid(vids[db], poisoned[db], id).vids
            private == AddPrivateVid(vids[db], poisoned[db], id).vids
        IN /\ HasPrivateVid(vids[db], poisoned[db], id)
                 => HasPrivateVid(verified, poisoned[db], id)
           /\ SameRelationState(vids[db][id], verified[id])
           /\ SameRelationState(vids[db][id], private[id])


---------------------------------------------------------------------------
(* Frames of every kind on the configured stores: direct, nested and       *)
(* routed content, the three control messages, signed-only frames and      *)
(* frames altered on the way                                               *)

NextFrames ==
    \/ \E message \in Messages :
          \/ Send("alice_db", Alice, Bob, None, message)
          \/ SendNested("alice_db", BobNested, "extra non-confidential data", message)
          \/ SendRouted("alice_db", BobNested, "extra non-confidential data", message)
    \/ CallSetRouteForVid("alice_db", BobNested, <<Bob, Alice>>)
    \/ SendRelationshipRequest("alice_db", Alice, Bob)
    \/ \E db \in Stores : Complete(db)
    \/ \E thread_id \in Digests : SendRelationshipAccept("bob_db", Bob, Alice, thread_id)
    \/ SendRelationshipCancel("alice_db", Alice, Bob)
    \/ SendRelationshipCancel("bob_db", Bob, Alice)
    \/ \E message \in Messages : SignAnycast("alice_db", Alice, message, "bob_db")
    \/ \E k \in 1..6, id \in {Alice, RealBob} :
          FaultySend("alice_db", Alice, Bob, None, "hello world", k, id)
    \/ \E db \in Stores : ReceiveStep(db)

SpecFrames == InitModes /\ [][NextFrames]_vars

\* The maps v and w differ at most in the relation_status of id
OnlyStatusOf(v, w, id) ==
    /\ id \in DOMAIN v
    /\ w = [v EXCEPT ![id].relation_status = w[id].relation_status]

(* C37: open_message changes the store only in the Accept and Cancel       *)
(* branches, and there only the relation_status of the frame's sender: a   *)
(* turn that yields AcceptRelationship or CancelRelationship leaves the    *)
(* identifiers and every other field of every VidContext as they were, and *)
(* a turn that yields anything else (content, a forward request, a         *)
(* relationship request, a signed message, whether nested or not, or an    *)
(* error, or that panics) leaves the map of VidContexts unchanged.         *)
C37_OnlyRelationStatus ==
    \A db \in Stores :
        turn[db].taken =>
            /\ DOMAIN turn[db].after = DOMAIN turn[db].before
            /\ IF /\ ~turn[db].panicked
                  /\ turn[db].result.ok
                  /\ turn[db].result.kind \in {"AcceptRelationship", "CancelRelationship"}
               THEN OnlyStatusOf(turn[db].before, turn[db].after, turn[db].result.sender)
               ELSE turn[db].after = turn[db].before

\* Alice's task took Bob's accept, which promoted her status for Bob and
\* changed nothing else, and Bob's task last took a frame that yielded an
\* error and changed nothing
C37_Witness ==
    /\ turn["alice_db"].taken
    /\ turn["alice_db"].result = ReceivedAccept(Bob)
    /\ StatusOf(turn["alice_db"].before, Bob).kind = "Unidirectional"
    /\ StatusOf(turn["alice_db"].after, Bob).kind = "Bidirectional"
    /\ turn["bob_db"].taken
    /\ ~turn["bob_db"].result.ok
    /\ ~turn["bob_db"].panicked


---------------------------------------------------------------------------
(* seal_message_payload with the payload variants, on the stores of the    *)
(* nested-mode test                                                        *)

Payloads ==
    {Content(m) : m \in Messages}
    \cup {RequestRelationship}
    \cup {AcceptRelationship(t) : t \in {1}}
    \cup {CancelRelationship(t) : t \in {1}}

\* A caller inside the crate seals `payload` with Store::seal_message_payload
\* and hands the bytes to the transport
SendPayload(db, sender, receiver, nc, payload) ==
    /\ nonce < MaxSeal
    /\ LET m == SealMessagePayload(vids[db], poisoned[db], sender, receiver, nc,
                                   payload, nonce + 1)
       IN IF ~m.ok THEN Returns(db, "seal_message_payload", m)
          ELSE /\ TransportSend(m.endpoint, m.bytes)
               /\ nonce' = nonce + m.used
               /\ sealed' = Append(sealed,
                                   Call("seal_message_payload", m.mode, sender, receiver,
                                        nc, payload, DefaultDigest, m.bytes))
               /\ UNCHANGED <<vids, poisoned, chan, task, pend, attacks, cancelled,
                              turn, rx, got, lock, proc, tx, ws, walk>>

NextPayload ==
    \/ \E receiver \in {Bob, BobNested}, nc \in NonConfidential, payload \in Payloads :
          SendPayload("alice_db", Alice, receiver, nc, payload)
    \/ \E db \in Stores : ReceiveStep(db)

SpecPayload == InitModes /\ [][NextPayload]_vars

\* Call n sealed a relationship control payload in nested mode
NestedControl(n) ==
    /\ sealed[n].op = "seal_message_payload"
    /\ sealed[n].mode = "nested"
    /\ sealed[n].message.kind
           \in {"RequestRelationship", "AcceptRelationship", "CancelRelationship"}

(* C38: A control payload (RequestRelationship, AcceptRelationship{t},     *)
(* CancelRelationship{t}) that seal_message_payload seals in nested mode   *)
(* is reported by the receiver's open_message as that control variant (or  *)
(* refused by the relationship state machine), never as a GenericMessage.  *)
C38_NestedControlVariant ==
    \A db \in Stores : \A n \in 1..Len(sealed) :
        ( NestedControl(n) /\ Took(db, n) )
        => \/ turn[db].result.ok /\ turn[db].result.kind = sealed[n].message.kind
           \/ ~turn[db].result.ok /\ turn[db].result.err = "Relationship"


---------------------------------------------------------------------------
\* Calls n1 and n2 are requests of db's owner to P, n1 made before n2
TwoRequests(db, P, n1, n2) ==
    /\ n1 < n2
    /\ {n1, n2} \subseteq Calls("send_relationship_request")
    /\ sealed[n1].sender = OwnerOf[db] /\ sealed[n1].receiver = P
    /\ sealed[n2].sender = OwnerOf[db] /\ sealed[n2].receiver = P

(* C39: A new send_relationship_request(A, B) replaces the pending thread. *)
(* The status insert of a request that was sent sets A's status for B to   *)
(* Unidirectional of that request's thread id, whatever it was; and with   *)
(* two requests of thread ids t1 then t2 and the status Unidirectional(t2),*)
(* an Accept from B carrying another thread id (t1 among them) yields a    *)
(* Relationship error and leaves the store as it was, and an Accept        *)
(* carrying t2 yields AcceptRelationship and makes the status              *)
(* Bidirectional(t2).                                                      *)
C39_SecondRequestReplaces ==
    /\ [](\A db \in Stores : \A P \in Ids : \A n1, n2 \in 1..Len(sealed) :
            ( /\ TwoRequests(db, P, n1, n2)
              /\ Delivered(db, "AcceptRelationship")
              /\ InboundSender(db) = P
              /\ StatusOf(turn[db].before, P) = Unidirectional(sealed[n2].thread_id) )
            => IF InboundThread(db) = sealed[n2].thread_id
               THEN /\ turn[db].result = ReceivedAccept(P)
                    /\ StatusOf(turn[db].after, P) = Bidirectional(sealed[n2].thread_id)
               ELSE /\ turn[db].result = Err("Relationship")
                    /\ turn[db].after = turn[db].before)
    /\ [][\A db \in Stores :
            ( /\ pend[db] # Idle
              /\ pend[db].op = "send_relationship_request"
              /\ pend'[db] = Idle
              /\ ~poisoned[db] )
            => StatusOf(vids'[db], pend[db].receiver) = pend[db].status]_vars

\* Alice requested twice, her status for Bob was Unidirectional(t2), and her
\* task took Bob's Accept of the first request and refused it
C39_Witness ==
    \E n1, n2 \in 1..Len(sealed) :
        /\ TwoRequests("alice_db", Bob, n1, n2)
        /\ Delivered("alice_db", "AcceptRelationship")
        /\ InboundSender("alice_db") = Bob
        /\ InboundThread("alice_db") = sealed[n1].thread_id
        /\ StatusOf(turn["alice_db"].before, Bob) = Unidirectional(sealed[n2].thread_id)
        /\ turn["alice_db"].result = Err("Relationship")
        /\ StatusOf(vids["alice_db"], Bob) = Unidirectional(sealed[n2].thread_id)


---------------------------------------------------------------------------
(* AsyncStore::receive: the walk along the parents of the VID, on a store  *)
(* whose parents a caller has set                                          *)

\* Store::set_parent_for_vid (modify_vid): any identifier is taken as parent
SetParentForVid(v, p, vid, parent_vid) ==
    IF p THEN Returned(Err("Internal"), v)
    ELSE IF vid \in DOMAIN v
         THEN Returned([ok |-> TRUE], [v EXCEPT ![vid].parent_vid = parent_vid])
    ELSE Returned(ErrVid("UnverifiedVid", vid), v)

\* A call of set_parent_for_vid before receive is called
CallSetParentForVid(db, vid, parent_vid) ==
    /\ walk.pc = "idle"
    /\ vids' = [vids EXCEPT ![db] = SetParentForVid(vids[db], poisoned[db], vid,
                                                    parent_vid).vids]
    /\ UNCHANGED <<poisoned, inbox, chan, task, pend, nonce, sealed, attacks, cancelled,
                   turn, rx, got, lock, proc, tx, ws, walk>>

WalkUnchanged ==
    UNCHANGED <<vids, poisoned, inbox, chan, task, pend, nonce, sealed, attacks,
                cancelled, turn, rx, got, lock, proc, tx, ws>>

\* receive(vid) up to its loop: get_private_vid(vid)?
ReceiveBegin(db, vid) ==
    /\ walk.pc = "idle"
    /\ LET receiver == GetPrivateVid(vids[db], poisoned[db], vid)
       IN walk' = IF receiver.ok
                  THEN [pc |-> "loop", db |-> db, receiver |-> vid, receivers |-> {}]
                  ELSE [pc |-> "error", db |-> db, res |-> receiver]
    /\ WalkUnchanged

\* One pass of the loop of receive: receivers.insert(receiver); with a parent,
\* receiver = get_private_vid(parent)? and the loop goes on; without, break,
\* and the endpoint of receiver is subscribed
ReceiveWalk ==
    /\ walk.pc = "loop"
    /\ LET parent_vid == vids[walk.db][walk.receiver].parent_vid
           receiver == GetPrivateVid(vids[walk.db], poisoned[walk.db], parent_vid)
       IN walk' = IF parent_vid = None
                  THEN [pc |-> "subscribed", db |-> walk.db, receiver |-> walk.receiver,
                        receivers |-> walk.receivers \cup {walk.receiver}]
                  ELSE IF ~receiver.ok
                  THEN [pc |-> "error", db |-> walk.db, res |-> receiver]
                  ELSE [walk EXCEPT !.receiver = parent_vid,
                                    !.receivers = @ \cup {walk.receiver}]
    /\ WalkUnchanged

NextReceive ==
    \/ \E vid \in ModeIds, parent_vid \in ModeIds \cup {None} :
          CallSetParentForVid("bob_db", vid, parent_vid)
    \/ \E vid \in ModeIds : ReceiveBegin("bob_db", vid)
    \/ ReceiveWalk

\* The loop of receive has no suspension point: once begun it runs on
SpecReceive == InitModes /\ [][NextReceive]_vars /\ WF_vars(ReceiveWalk)

====
